---- MODULE Spec2Model ----
(***************************************************************************)
(* A model of article-extractor's content-extraction core:                 *)
(*   - candidate_finder.find_top_candidate (semantic scan, fallback scan,  *)
(*     body last resort, ranking);                                         *)
(*   - content_sanitizer.sanitize_content (empty links, invalid images,    *)
(*     empty blocks) and its image validity rule;                          *)
(*   - document_cleaner.clean_document (strip pass, role pass).            *)
(* and of its service layer:                                               *)
(*   - server.ExtractionResponseCache, POST / and the lifespan;            *)
(*   - settings.get_settings and reload_settings;                          *)
(*   - fetcher.PlaywrightFetcher (enter, exit, concurrent fetch calls).    *)
(* Modules of the package that candidate_finder and content_sanitizer      *)
(* import (scorer, cache, constants, dom_utils), and document_cleaner, are *)
(* modelled from their documented contract.                                *)
(***************************************************************************)
EXTENDS Integers, Sequences, FiniteSets, TLC

VARIABLES
    doc,          \* finder: the parsed document, its elements in document order
    pc,           \* finder: position inside find_top_candidate
    seen,         \* finder: _find_candidates' set of node identities
    candidates,   \* finder: the candidate list
    ranked,       \* finder: the list rank_candidates returned
    result,       \* finder: find_top_candidate's return value (None or a node)
    textCache,    \* finder: ExtractionCache._text_cache, node identity -> length
    scoreOf,      \* finder: the content score computed for a node, once computed
    rankPatched,  \* finder: rank_candidates replaced by an empty ranking (test patch)
    finds,        \* finder: the number of find_top_candidate calls started
    prevResult,   \* finder: what the previous call returned
    prevCache,    \* finder: the text cache as the previous call left it
    tree,         \* sanitizer: the elements as parsed (tag, own text, attrs, parent)
    parent,       \* sanitizer: each node's current parent (None once detached)
    spc,          \* sanitizer: the pass sanitize_content runs next
    calls,        \* sanitizer: the number of sanitize_content calls started
    removals,     \* sanitizer: remove_child calls made by the current call
    snap,         \* sanitizer: the parents as the previous call left them
    srcs,         \* image rule: the src values handed to _has_valid_image_src
    checked,      \* image rule: the outcome of each call made so far
    cdoc,         \* cleaner: the document's nodes as parsed (tag, role, parent)
    cparent,      \* cleaner: each node's current parent (None once detached)
    children,     \* cleaner: each node's current child list
    strip_selector, \* cleaner: the simple selectors joined in strip_selector
    role_selector,  \* cleaner: the simple selectors joined in role_selector
    returned,     \* cleaner: what clean_document returned (None before it has)
    store,        \* cache: ExtractionResponseCache._store, oldest entry first
    max_size,     \* cache: ExtractionResponseCache.max_size (None before construction)
    recency,      \* cache: the keys by their last get-hit or set, oldest first
    lastOp,       \* cache: the operation made last, with what it returned
    running,      \* server: the application is between startup and shutdown
    inflight,     \* server: per request slot, the URL being extracted (None when free)
    lastSuccess,  \* server: per URL, the latest successful response returned
    lastResponse, \* server: what POST / did last, with the answer it gave
    env,          \* settings: ARTICLE_EXTRACTOR_CACHE_SIZE in the environment (<<>> when unset)
    settings_override, \* settings: _SETTINGS_OVERRIDE (<<>> for None, else <<kwargs>>)
    loaded,       \* settings: the instance _load_settings' lru_cache holds
    built,        \* settings: the number of ServiceSettings instances built
    lastGet,      \* settings: the instance get_settings returned last, since the last reload
    lastReload,   \* settings: the last reload_settings call, with the environment it saw
    startupSaw,   \* settings: the environment and override as the last startup found them
    health,       \* settings: cache.max_size as /health reported it last
    fcontext,     \* fetcher: PlaywrightFetcher._context (None, or the context's number)
    fsemaphore,   \* fetcher: PlaywrightFetcher._semaphore (None, or the semaphore's number)
    permits,      \* fetcher: the value of each asyncio.Semaphore created so far
    fetches,      \* fetcher: each fetch call's position, semaphore, context and outcome
    pages         \* fetcher: the browser page made for each fetch call

repeatVars == <<finds, prevResult, prevCache>>

finderVars ==
    <<doc, pc, seen, candidates, ranked, result, textCache, scoreOf, rankPatched,
      repeatVars>>

sanitizerVars == <<tree, parent, spc, calls, removals, snap>>

imageVars == <<srcs, checked>>

cleanerVars == <<cdoc, cparent, children, strip_selector, role_selector, returned>>

cacheVars == <<store, max_size, recency, lastOp>>

serverVars == <<running, inflight, lastSuccess, lastResponse>>

settingsVars ==
    <<env, settings_override, loaded, built, lastGet, lastReload, startupSaw, health>>

fetcherVars == <<fcontext, fsemaphore, permits, fetches, pages>>

serviceVars == <<cacheVars, serverVars, settingsVars, fetcherVars>>

vars == <<finderVars, sanitizerVars, imageVars, cleanerVars, serviceVars>>

None == 0

(***************************************************************************)
(* Bounds of the model.                                                    *)
(***************************************************************************)
MaxNodes == 2
MaxScore == 1

(***************************************************************************)
(* Classification tables.                                                  *)
(***************************************************************************)
MIN_CHAR_THRESHOLD == 500

SEMANTIC_CANDIDATE_TAGS == <<"article", "main">>

RoleMainSelector == "[role=\"main\"]"

SEMANTIC_CANDIDATE_SELECTORS == <<RoleMainSelector>>

FALLBACK_CANDIDATE_TAGS == <<"div", "section">>

\* Tag names of the elements a document is drawn from.
Tags == {"body", "article", "main", "div", "section"}

\* Values of the role attribute ("" stands for no role attribute).
Roles == {"", "main"}

\* class/id keyword sets: a deny-list keyword, an allow-list keyword.
ClassIds == {{}, {"sidebar"}, {"sidebar", "content"}}

\* Text lengths of an element's rendered text, on both sides of the threshold.
TextLengths == {MIN_CHAR_THRESHOLD, MIN_CHAR_THRESHOLD + 1}

Elements == [tag : Tags, role : Roles, classId : ClassIds, textLen : TextLengths]

Documents == UNION {[1..n -> Elements] : n \in 0..MaxNodes}

Scores == 0..MaxScore

(***************************************************************************)
(* The parsed-document collaborator: query(selector) returns the matching  *)
(* nodes in document order.  A node's identity is its index in doc.        *)
(***************************************************************************)
Matches(el, selector) ==
    IF selector = RoleMainSelector THEN el.role = "main" ELSE el.tag = selector

RECURSIVE QueryFrom(_, _, _)
QueryFrom(d, selector, i) ==
    IF i > Len(d) THEN <<>>
    ELSE (IF Matches(d[i], selector) THEN <<i>> ELSE <<>>) \o QueryFrom(d, selector, i + 1)

Query(d, selector) == QueryFrom(d, selector, 1)

(***************************************************************************)
(* scorer.is_unlikely_candidate: the class/id text matches the deny list   *)
(* and does not match the allow list.                                      *)
(***************************************************************************)
is_unlikely_candidate(el) ==
    "sidebar" \in el.classId /\ "content" \notin el.classId

(***************************************************************************)
(* cache.ExtractionCache.get_text_length: the stored length if the node    *)
(* has one, otherwise the computed length, which is stored.                *)
(***************************************************************************)
CachePut(cache, d, node) ==
    IF node \in DOMAIN cache THEN cache
    ELSE [n \in DOMAIN cache \cup {node} |->
            IF n = node THEN d[node].textLen ELSE cache[n]]

get_text_length(cache, d, node) ==
    IF node \in DOMAIN cache THEN cache[node] ELSE d[node].textLen

(***************************************************************************)
(* candidate_finder._find_candidates.  The scan state is the triple        *)
(* (seen, candidates, cache).                                              *)
(***************************************************************************)
add_if_new_Unfiltered(st, d, node) ==
    IF node \notin st.seen
    THEN [st EXCEPT !.seen = @ \cup {node}, !.candidates = Append(@, node)]
    ELSE st

add_if_new_NoDedup(st, d, node) ==
    IF ~is_unlikely_candidate(d[node])
    THEN [st EXCEPT !.seen = @ \cup {node}, !.candidates = Append(@, node)]
    ELSE st

add_if_new(st, d, node) ==
    IF node \notin st.seen /\ ~is_unlikely_candidate(d[node])
    THEN [st EXCEPT !.seen = @ \cup {node}, !.candidates = Append(@, node)]
    ELSE st

RECURSIVE AddAll(_, _, _)
AddAll(st, d, nodes) ==
    IF nodes = <<>> THEN st
    ELSE AddAll(add_if_new(st, d, Head(nodes)), d, Tail(nodes))

\* for selector in selectors: for node in doc.query(selector): add_if_new(node)
RECURSIVE ScanSelectors(_, _, _)
ScanSelectors(st, d, selectors) ==
    IF selectors = <<>> THEN st
    ELSE ScanSelectors(AddAll(st, d, Query(d, Head(selectors))), d, Tail(selectors))

SemanticScan(st, d) ==
    ScanSelectors(ScanSelectors(st, d, SEMANTIC_CANDIDATE_TAGS), d,
                  SEMANTIC_CANDIDATE_SELECTORS)

\* if candidates: return candidates
SemanticFound_NeedsTwo(cands) == Len(cands) > 1

SemanticFound(cands) == cands # <<>>

\* if cache.get_text_length(node) > MIN_CHAR_THRESHOLD
ExceedsThreshold_Inclusive(len) == len >= MIN_CHAR_THRESHOLD

ExceedsThreshold(len) == len > MIN_CHAR_THRESHOLD

RECURSIVE FallbackNodes(_, _, _)
FallbackNodes(st, d, nodes) ==
    IF nodes = <<>> THEN st
    ELSE LET node == Head(nodes)
             len == get_text_length(st.cache, d, node)
             st1 == [st EXCEPT !.cache = CachePut(@, d, node)]
             st2 == IF ExceedsThreshold(len) THEN add_if_new(st1, d, node) ELSE st1
         IN FallbackNodes(st2, d, Tail(nodes))

RECURSIVE FallbackTags(_, _, _)
FallbackTags(st, d, tags) ==
    IF tags = <<>> THEN st
    ELSE FallbackTags(FallbackNodes(st, d, Query(d, Head(tags))), d, Tail(tags))

FallbackScan(st, d) == FallbackTags(st, d, FALLBACK_CANDIDATE_TAGS)

(***************************************************************************)
(* types.ScoredCandidate.__lt__ and scorer.rank_candidates: one scored     *)
(* candidate per node, sorted with list.sort (stable, by __lt__ alone).    *)
(***************************************************************************)
ScoredLt_Ascending(a, b) == a.score < b.score

ScoredLt_NonStrict(a, b) == a.score >= b.score

ScoredLt(a, b) == a.score > b.score

\* Insert x, the latest element, behind every element it is not less than.
RECURSIVE StableInsert(_, _)
StableInsert(sorted, x) ==
    IF sorted = <<>> THEN <<x>>
    ELSE LET last == sorted[Len(sorted)]
         IN IF ScoredLt(x, last)
            THEN Append(StableInsert(SubSeq(sorted, 1, Len(sorted) - 1), x), last)
            ELSE Append(sorted, x)

RECURSIVE StableSort(_)
StableSort(s) ==
    IF s = <<>> THEN <<>>
    ELSE StableInsert(StableSort(SubSeq(s, 1, Len(s) - 1)), s[Len(s)])

ScoredCandidate(d, cache, score, node) ==
    [node |-> node, score |-> score[node],
     content_length |-> get_text_length(cache, d, node)]

rank_candidates(d, cache, score, cands) ==
    StableSort([k \in 1..Len(cands) |-> ScoredCandidate(d, cache, score, cands[k])])

RECURSIVE CacheAll(_, _, _)
CacheAll(cache, d, nodes) ==
    IF nodes = <<>> THEN cache
    ELSE CacheAll(CachePut(cache, d, Head(nodes)), d, Tail(nodes))

SeqToSet(s) == {s[k] : k \in 1..Len(s)}

\* The scores of the nodes scored so far, extended by the scores of cands.
ScoreExtensions(score, cands) ==
    {f \in [DOMAIN score \cup SeqToSet(cands) -> Scores] :
        \A n \in DOMAIN score : f[n] = score[n]}

EmptyFn == [n \in {} |-> 0]

\* body_nodes = doc.query("body"); if body_nodes: candidates = [body_nodes[0]]
body_fallback_Missing(d) == <<>>

body_fallback(d) ==
    LET body_nodes == Query(d, "body")
    IN IF body_nodes # <<>> THEN <<body_nodes[1]>> ELSE <<>>

(***************************************************************************)
(* find_top_candidate, step by step.                                       *)
(***************************************************************************)
SanitizerIdle ==
    /\ tree = <<>>
    /\ parent = <<>>
    /\ spc = "idle"
    /\ calls = 0
    /\ removals = 0
    /\ snap = <<>>

ImageIdle ==
    /\ srcs = <<>>
    /\ checked = <<>>

CleanerIdle ==
    /\ cdoc = <<>>
    /\ cparent = <<>>
    /\ children = <<>>
    /\ strip_selector = {}
    /\ role_selector = {}
    /\ returned = None

NoOp == [op |-> "none", key |-> None, value |-> None, result |-> None, evicted |-> {}]

CacheIdle ==
    /\ store = <<>>
    /\ max_size = None
    /\ recency = <<>>
    /\ lastOp = NoOp

NoResponse ==
    [url |-> None, kind |-> "none", status_code |-> None, detail |-> <<>>,
     response |-> None, error |-> ""]

ServerIdle ==
    /\ running = FALSE
    /\ inflight = <<>>
    /\ lastSuccess = <<>>
    /\ lastResponse = NoResponse

NoSettings == [id |-> None, cache_size |-> None]

NoReload == [id |-> None, overrides |-> <<>>, env |-> <<>>, discarded |-> FALSE]

SettingsIdle ==
    /\ env = <<>>
    /\ settings_override = <<>>
    /\ loaded = NoSettings
    /\ built = 0
    /\ lastGet = NoSettings
    /\ lastReload = NoReload
    /\ startupSaw = <<>>
    /\ health = None

FetcherIdle ==
    /\ fcontext = None
    /\ fsemaphore = None
    /\ permits = <<>>
    /\ fetches = <<>>
    /\ pages = <<>>

ServiceIdle ==
    /\ CacheIdle
    /\ ServerIdle
    /\ SettingsIdle
    /\ FetcherIdle

\* The first find_top_candidate call on a document, with a fresh cache.
FirstCall ==
    /\ rankPatched = FALSE
    /\ pc = "semantic"
    /\ seen = {}
    /\ candidates = <<>>
    /\ ranked = <<>>
    /\ result = None
    /\ textCache = EmptyFn
    /\ scoreOf = EmptyFn
    /\ finds = 1
    /\ prevResult = None
    /\ prevCache = EmptyFn

FinderInit ==
    /\ SanitizerIdle
    /\ ImageIdle
    /\ CleanerIdle
    /\ ServiceIdle
    /\ doc \in Documents
    /\ FirstCall

SemanticPhase_StaleSeen ==
    /\ pc = "semantic"
    /\ LET st == SemanticScan([seen |-> seen, candidates |-> <<>>, cache |-> textCache], doc)
       IN /\ seen' = st.seen
          /\ candidates' = st.candidates
          /\ pc' = IF SemanticFound(st.candidates) THEN "rank" ELSE "fallback"
    /\ UNCHANGED <<doc, ranked, result, textCache, scoreOf, rankPatched, repeatVars,
                   sanitizerVars, imageVars, cleanerVars, serviceVars>>

\* _find_candidates, the semantic fast path
SemanticPhase ==
    /\ pc = "semantic"
    /\ LET st == SemanticScan([seen |-> {}, candidates |-> <<>>, cache |-> textCache], doc)
       IN /\ seen' = st.seen
          /\ candidates' = st.candidates
          /\ pc' = IF SemanticFound(st.candidates) THEN "rank" ELSE "fallback"
    /\ UNCHANGED <<doc, ranked, result, textCache, scoreOf, rankPatched, repeatVars, sanitizerVars,
                 imageVars, cleanerVars, serviceVars>>

\* _find_candidates, the div/section scan
FallbackPhase ==
    /\ pc = "fallback"
    /\ LET st == FallbackScan([seen |-> seen, candidates |-> candidates,
                               cache |-> textCache], doc)
       IN /\ seen' = st.seen
          /\ candidates' = st.candidates
          /\ textCache' = st.cache
          /\ pc' = IF st.candidates # <<>> THEN "rank" ELSE "body"
    /\ UNCHANGED <<doc, ranked, result, scoreOf, rankPatched, repeatVars, sanitizerVars,
                 imageVars, cleanerVars, serviceVars>>

\* find_top_candidate: the body last resort, and the return of None
BodyFallback ==
    /\ pc = "body"
    /\ candidates' = body_fallback(doc)
    /\ IF candidates' # <<>>
       THEN /\ pc' = "rank"
            /\ UNCHANGED result
       ELSE /\ result' = None
            /\ pc' = "done"
    /\ UNCHANGED <<doc, seen, ranked, textCache, scoreOf, rankPatched, repeatVars, sanitizerVars,
                 imageVars, cleanerVars, serviceVars>>

\* find_top_candidate: rank the candidates and return the first
RankAndReturn ==
    /\ pc = "rank"
    /\ \/ /\ ~rankPatched
          /\ \E score \in ScoreExtensions(scoreOf, candidates) :
             LET cache == CacheAll(textCache, doc, candidates)
                 r == rank_candidates(doc, cache, score, candidates)
             IN /\ scoreOf' = score
                /\ textCache' = cache
                /\ ranked' = r
                /\ result' = IF r = <<>> THEN None ELSE r[1].node
                /\ UNCHANGED rankPatched
       \/ \* the test's patch: rank_candidates returns [], in every call
          /\ finds = 1 \/ rankPatched
          /\ rankPatched' = TRUE
          /\ ranked' = <<>>
          /\ result' = None
          /\ UNCHANGED <<scoreOf, textCache>>
    /\ pc' = "done"
    /\ UNCHANGED <<doc, seen, candidates, repeatVars, sanitizerVars,
                 imageVars, cleanerVars, serviceVars>>

FinderNext ==
    \/ SemanticPhase
    \/ FallbackPhase
    \/ BodyFallback
    \/ RankAndReturn

SpecFinder == FinderInit /\ [][FinderNext]_vars

(***************************************************************************)
(* find_top_candidate called again on the same document with the same      *)
(* cache (tests/test_candidate_finder.py, test_cache_reuse_across_calls).  *)
(***************************************************************************)
MaxFinds == 2

RepeatTags == {"body", "article", "main", "div"}

RepeatElements ==
    [tag : RepeatTags, role : {""}, classId : {{}, {"sidebar"}},
     textLen : TextLengths]

RepeatDocuments == UNION {[1..n -> RepeatElements] : n \in 0..MaxNodes}

FinderRepeatInit ==
    /\ SanitizerIdle
    /\ ImageIdle
    /\ CleanerIdle
    /\ ServiceIdle
    /\ doc \in RepeatDocuments
    /\ FirstCall

FindAgain ==
    /\ pc = "done"
    /\ finds < MaxFinds
    /\ finds' = finds + 1
    /\ prevResult' = result
    /\ prevCache' = textCache
    /\ result' = None
    /\ pc' = "semantic"
    /\ UNCHANGED <<doc, seen, candidates, ranked, textCache, scoreOf, rankPatched,
                   sanitizerVars, imageVars, cleanerVars, serviceVars>>

FinderRepeatNext ==
    \/ SemanticPhase
    \/ FallbackPhase
    \/ BodyFallback
    \/ RankAndReturn
    \/ FindAgain

SpecFinderRepeat == FinderRepeatInit /\ [][FinderRepeatNext]_vars

(***************************************************************************)
(* Strings are sequences of one-character strings.  The operators below    *)
(* are Python's str methods as content_sanitizer uses them; positions are  *)
(* 0-based as in Python, and find returns -1 when there is no match.       *)
(***************************************************************************)
UpperChars ==
    <<"A", "B", "C", "D", "E", "F", "G", "H", "I", "J", "K", "L", "M",
      "N", "O", "P", "Q", "R", "S", "T", "U", "V", "W", "X", "Y", "Z">>

LowerChars ==
    <<"a", "b", "c", "d", "e", "f", "g", "h", "i", "j", "k", "l", "m",
      "n", "o", "p", "q", "r", "s", "t", "u", "v", "w", "x", "y", "z">>

LowerChar(c) ==
    IF \E i \in DOMAIN UpperChars : UpperChars[i] = c
    THEN LowerChars[CHOOSE i \in DOMAIN UpperChars : UpperChars[i] = c]
    ELSE c

StrLower(str) == [i \in 1..Len(str) |-> LowerChar(str[i])]

IsSpace(c) == c \in {" ", "\t", "\n"}

RECURSIVE LStrip(_)
LStrip(str) ==
    IF str # <<>> /\ IsSpace(Head(str)) THEN LStrip(Tail(str)) ELSE str

RECURSIVE RStrip(_)
RStrip(str) ==
    IF str # <<>> /\ IsSpace(str[Len(str)])
    THEN RStrip(SubSeq(str, 1, Len(str) - 1))
    ELSE str

StrStrip(str) == RStrip(LStrip(str))

\* str[pos:].startswith(pat)
StartsWithAt(str, pat, pos) ==
    /\ pos + Len(pat) <= Len(str)
    /\ \A k \in 1..Len(pat) : str[pos + k] = pat[k]

StartsWith(str, pat) == StartsWithAt(str, pat, 0)

\* str.find(pat, start)
StrFind(str, pat, start) ==
    IF \E pos \in start..Len(str) : StartsWithAt(str, pat, pos)
    THEN CHOOSE pos \in start..Len(str) :
            /\ StartsWithAt(str, pat, pos)
            /\ \A q \in start..(pos - 1) : ~StartsWithAt(str, pat, q)
    ELSE -1

\* pat in str
StrContains(str, pat) == StrFind(str, pat, 0) # -1

\* str[from:to]
StrSlice(str, from, to) == SubSeq(str, from + 1, to)

\* str.rfind(pat) for a one-character pat
StrRFind(str, c) ==
    IF \E pos \in 0..(Len(str) - 1) : str[pos + 1] = c
    THEN CHOOSE pos \in 0..(Len(str) - 1) :
            /\ str[pos + 1] = c
            /\ \A q \in (pos + 1)..(Len(str) - 1) : str[q + 1] # c
    ELSE -1

\* str.split("/")[-1]
LastPathSegment(str) ==
    LET slash == StrRFind(str, "/")
    IN IF slash = -1 THEN str ELSE StrSlice(str, slash + 1, Len(str))

\* str.rpartition(".")
RPartitionDot(str) ==
    LET dot == StrRFind(str, ".")
    IN IF dot = -1
       THEN [name |-> <<>>, dot |-> <<>>, ext |-> str]
       ELSE [name |-> StrSlice(str, 0, dot), dot |-> <<".">>,
             ext |-> StrSlice(str, dot + 1, Len(str))]

(***************************************************************************)
(* content_sanitizer._has_valid_image_src and _is_valid_image_filename.    *)
(***************************************************************************)
tracking_patterns ==
    { <<"/", "p", "i", "x", "e", "l", ".", "g", "i", "f">>,
      <<"/", "p", "i", "x", "e", "l", ".", "p", "n", "g">>,
      <<"/", "1", "x", "1", ".", "g", "i", "f">>,
      <<"/", "1", "x", "1", ".", "p", "n", "g">>,
      <<"/", "s", "p", "a", "c", "e", "r", ".", "g", "i", "f">>,
      <<"/", "s", "p", "a", "c", "e", "r", ".", "p", "n", "g">>,
      <<"/", "b", "l", "a", "n", "k", ".", "g", "i", "f">>,
      <<"/", "b", "l", "a", "n", "k", ".", "p", "n", "g">> }

tracking_domain_prefixes ==
    { <<"t", "r", "a", "c", "k", "i", "n", "g", ".">>,
      <<"a", "n", "a", "l", "y", "t", "i", "c", "s", ".">>,
      <<"m", "e", "t", "r", "i", "c", "s", ".">> }

kept_prefixes ==
    { <<"d", "a", "t", "a", ":">>, <<"h", "t", "t", "p">>, <<"/", "/">>,
      <<"/">>, <<".", "/">>, <<".", ".", "/">> }

valid_extensions ==
    { <<"j", "p", "g">>, <<"j", "p", "e", "g">>, <<"p", "n", "g">>,
      <<"g", "i", "f">>, <<"w", "e", "b", "p">>, <<"s", "v", "g">>,
      <<"b", "m", "p">>, <<"a", "v", "i", "f">>, <<"a", "p", "n", "g">>,
      <<"t", "i", "f", "f">>, <<"j", "f", "i", "f">> }

SchemeSep == <<":", "/", "/">>

is_valid_image_filename_AnyBasename(filename) ==
    LET parts == RPartitionDot(LastPathSegment(filename))
    IN /\ parts.dot # <<>>
       /\ parts.ext \in valid_extensions

is_valid_image_filename(filename) ==
    LET parts == RPartitionDot(LastPathSegment(filename))
    IN /\ parts.dot # <<>>
       /\ parts.ext \in valid_extensions
       /\ Len(StrStrip(parts.name)) >= 2

SrcDomain_CaseSensitive(src_str) ==
    LET domain_start == StrFind(src_str, SchemeSep, 0) + 3
        slash == StrFind(src_str, <<"/">>, domain_start)
        domain_end == IF slash = -1 THEN Len(src_str) ELSE slash
    IN StrSlice(src_str, domain_start, domain_end)

\* The domain of a src that contains "://".
SrcDomain(src_str) ==
    LET domain_start == StrFind(src_str, SchemeSep, 0) + 3
        slash == StrFind(src_str, <<"/">>, domain_start)
        domain_end == IF slash = -1 THEN Len(src_str) ELSE slash
    IN StrLower(StrSlice(src_str, domain_start, domain_end))

ValidSrcString_PrefixFirst(src) ==
    LET src_str == StrStrip(src)
        src_lower == StrLower(src_str)
    IN IF src_str = <<>> THEN FALSE
       ELSE IF \E prefix \in kept_prefixes : StartsWith(src_str, prefix)
       THEN TRUE
       ELSE IF \E pattern \in tracking_patterns : StrContains(src_lower, pattern)
       THEN FALSE
       ELSE IF /\ StrContains(src_str, SchemeSep)
               /\ \E prefix \in tracking_domain_prefixes :
                     StartsWith(SrcDomain(src_str), prefix)
       THEN FALSE
       ELSE is_valid_image_filename(src_lower)

\* The checks on a src attribute that is present.
ValidSrcString(src) ==
    LET src_str == StrStrip(src)
        src_lower == StrLower(src_str)
    IN IF src_str = <<>> THEN FALSE
       ELSE IF \E pattern \in tracking_patterns : StrContains(src_lower, pattern)
       THEN FALSE
       ELSE IF /\ StrContains(src_str, SchemeSep)
               /\ \E prefix \in tracking_domain_prefixes :
                     StartsWith(SrcDomain(src_str), prefix)
       THEN FALSE
       ELSE IF \E prefix \in kept_prefixes : StartsWith(src_str, prefix)
       THEN TRUE
       ELSE is_valid_image_filename(src_lower)

\* The src values the sanitizer's trees carry, and their verdicts.
SrcSamples ==
    { <<"h", "t", "t", "p", "s", ":", "/", "/", "x", ".", "c", "o", "m", "/",
        "h", "e", "r", "o", ".", "j", "p", "g">>,
      <<"/", "/", "x", "/", "p", "i", "x", "e", "l", ".", "g", "i", "f">>,
      <<"t", ".", "g", "i", "f">> }

SampleVerdicts == [src \in SrcSamples |-> ValidSrcString(src)]

\* attrs is a function from the attribute names present to their values.
has_valid_image_src(attrs) ==
    IF "src" \notin DOMAIN attrs THEN FALSE
    ELSE IF attrs["src"] \in SrcSamples THEN SampleVerdicts[attrs["src"]]
    ELSE ValidSrcString(attrs["src"])

(***************************************************************************)
(* The tree sanitize_content works on.  Node identities are the indices    *)
(* of tree, in document order: Container is the element that holds the     *)
(* chosen candidate, Root is the candidate handed to sanitize_content, and *)
(* the nodes behind it are its descendants.  An element's own text is the  *)
(* text of its text-node children.                                         *)
(***************************************************************************)
Container == 1
Root == 2

MaxInner == 2
MaxCalls == 2

RootTags == {"article", "div"}

InnerTags == {"a", "li", "p", "div", "span"}

Texts == {<<>>, <<" ">>, <<"x">>}

RootTexts == {<<>>, <<"x">>}

ImgAttrs == {EmptyFn} \cup {[a \in {"src"} |-> src] : src \in SrcSamples}

ContainerElement ==
    [tag |-> "body", text |-> <<>>, attrs |-> EmptyFn, parent |-> None]

RootElements ==
    [tag : RootTags, text : RootTexts, attrs : {EmptyFn}, parent : {Container}]

\* The elements behind the root: img is a void element (no text) and the
\* only one with a src.
InnerElements(parents) ==
    [tag : InnerTags, text : Texts, attrs : {EmptyFn}, parent : parents]
        \cup [tag : {"img"}, text : {<<>>}, attrs : ImgAttrs, parent : parents]

\* n itself and the nodes above it, by the parents recorded in t.
RECURSIVE ParsedChain(_, _)
ParsedChain(t, n) ==
    IF n = None THEN {} ELSE {n} \cup ParsedChain(t, t[n].parent)

\* The parser numbers the nodes in document order: each node behind the root
\* is a child of the node before it or of one of that node's ancestors inside
\* the candidate, and an img has no children.
RECURSIVE WellFormedTo(_, _)
WellFormedTo(t, n) ==
    IF n <= Root THEN TRUE
    ELSE IF ~WellFormedTo(t, n - 1) THEN FALSE
    ELSE IF t[n].parent >= n THEN FALSE
    ELSE /\ t[n].parent \in ParsedChain(t, n - 1) \ {Container}
         /\ t[t[n].parent].tag # "img"

WellFormed(t) == WellFormedTo(t, Len(t))

(***************************************************************************)
(* The parsed-node collaborator: query, to_text, remove_child.             *)
(***************************************************************************)
\* n is a or lies below a, by the current parents.
RECURSIVE InSubtree(_, _, _)
InSubtree(par, n, a) ==
    \/ n = a
    \/ /\ par[n] # None
       /\ InSubtree(par, par[n], a)

\* node.query(tag): the descendants of node with that tag, in document order
RECURSIVE QueryTagFrom(_, _, _, _, _)
QueryTagFrom(t, par, node, tagname, i) ==
    IF i > Len(t) THEN <<>>
    ELSE (IF i # node /\ t[i].tag = tagname /\ InSubtree(par, i, node)
          THEN <<i>> ELSE <<>>) \o QueryTagFrom(t, par, node, tagname, i + 1)

QueryTag(t, par, node, tagname) == QueryTagFrom(t, par, node, tagname, 1)

\* node.to_text(strip=True): the stripped, non-empty texts below node, joined
RECURSIVE ToTextFrom(_, _, _, _)
ToTextFrom(t, par, node, i) ==
    IF i > Len(t) THEN <<>>
    ELSE LET rest == ToTextFrom(t, par, node, i + 1)
             own == IF InSubtree(par, i, node) THEN StrStrip(t[i].text) ELSE <<>>
         IN IF own = <<>> THEN rest
            ELSE IF rest = <<>> THEN own
            ELSE own \o <<" ">> \o rest

ToText(t, par, node) == ToTextFrom(t, par, node, 1)

(***************************************************************************)
(* dom_utils.collect_nodes_by_tags: the root when its tag is one of tags,  *)
(* then the matches of each tag below the root.                            *)
(***************************************************************************)
RECURSIVE CollectTags(_, _, _, _)
CollectTags(t, par, root, tags) ==
    IF tags = <<>> THEN <<>>
    ELSE QueryTag(t, par, root, Head(tags)) \o CollectTags(t, par, root, Tail(tags))

collect_nodes_by_tags(t, par, root, tags) ==
    (IF \E k \in 1..Len(tags) : tags[k] = t[root].tag THEN <<root>> ELSE <<>>)
        \o CollectTags(t, par, root, tags)

(***************************************************************************)
(* content_sanitizer: the keep predicates, _remove_nodes and the passes.   *)
(* A pass state is the pair (parent, removals).                            *)
(***************************************************************************)
node_has_visible_content_AnyImage(t, par, node) ==
    \/ ToText(t, par, node) # <<>>
    \/ QueryTag(t, par, node, "img") # <<>>

node_has_visible_content_TextOnly(t, par, node) ==
    ToText(t, par, node) # <<>>

node_has_visible_content(t, par, node) ==
    \/ ToText(t, par, node) # <<>>
    \/ LET imgs == QueryTag(t, par, node, "img")
       IN \E k \in 1..Len(imgs) : has_valid_image_src(t[imgs[k]].attrs)

Keep(kind, t, par, node) ==
    IF kind = "src" THEN has_valid_image_src(t[node].attrs)
    ELSE node_has_visible_content(t, par, node)

RECURSIVE RemoveLoop(_, _, _, _)
RemoveLoop(t, st, nodes, kind) ==
    IF nodes = <<>> THEN st
    ELSE LET node == Head(nodes)
             st1 == IF Keep(kind, t, st.parent, node) THEN st
                    ELSE IF st.parent[node] # None
                    THEN [parent |-> [st.parent EXCEPT ![node] = None],
                          removals |-> st.removals + 1]
                    ELSE st
         IN RemoveLoop(t, st1, Tail(nodes), kind)

remove_nodes(t, st, root, tags, kind) ==
    RemoveLoop(t, st, collect_nodes_by_tags(t, st.parent, root, tags), kind)

remove_empty_links_AndSpans(t, st, root) ==
    remove_nodes(t, st, root, <<"a", "span">>, "visible")

remove_empty_links(t, st, root) == remove_nodes(t, st, root, <<"a">>, "visible")

remove_empty_images_ByVisibility(t, st, root) ==
    remove_nodes(t, st, root, <<"img">>, "visible")

remove_empty_images(t, st, root) == remove_nodes(t, st, root, <<"img">>, "src")

remove_empty_blocks_BySrc(t, st, root) ==
    remove_nodes(t, st, root, <<"li", "p", "div">>, "src")

remove_empty_blocks_NoDiv(t, st, root) ==
    remove_nodes(t, st, root, <<"li", "p">>, "visible")

remove_empty_blocks(t, st, root) ==
    remove_nodes(t, st, root, <<"li", "p", "div">>, "visible")

(***************************************************************************)
(* sanitize_content(Root), pass by pass, and a further call after it.      *)
(***************************************************************************)
FinderIdle ==
    /\ doc = <<>>
    /\ pc = "idle"
    /\ seen = {}
    /\ candidates = <<>>
    /\ ranked = <<>>
    /\ result = None
    /\ textCache = EmptyFn
    /\ scoreOf = EmptyFn
    /\ rankPatched = FALSE
    /\ finds = 0
    /\ prevResult = None
    /\ prevCache = EmptyFn

SanitizerInit ==
    /\ FinderIdle
    /\ ImageIdle
    /\ CleanerIdle
    /\ ServiceIdle
    /\ \E k \in 0..MaxInner, r \in RootElements :
          \E inner \in [1..k -> InnerElements(Root..(Root + k - 1))] :
             /\ tree = <<ContainerElement, r>> \o inner
             /\ WellFormed(tree)
    /\ parent = [n \in 1..Len(tree) |-> tree[n].parent]
    /\ spc = "links"
    /\ calls = 1
    /\ removals = 0
    /\ snap = parent

PassState == [parent |-> parent, removals |-> removals]

RemoveEmptyLinks ==
    /\ spc = "links"
    /\ LET st == remove_empty_links(tree, PassState, Root)
       IN /\ parent' = st.parent
          /\ removals' = st.removals
    /\ spc' = "images"
    /\ UNCHANGED <<tree, calls, snap, finderVars, imageVars, cleanerVars, serviceVars>>

RemoveEmptyImages ==
    /\ spc = "images"
    /\ LET st == remove_empty_images(tree, PassState, Root)
       IN /\ parent' = st.parent
          /\ removals' = st.removals
    /\ spc' = "blocks"
    /\ UNCHANGED <<tree, calls, snap, finderVars, imageVars, cleanerVars, serviceVars>>

RemoveEmptyBlocks ==
    /\ spc = "blocks"
    /\ LET st == remove_empty_blocks(tree, PassState, Root)
       IN /\ parent' = st.parent
          /\ removals' = st.removals
    /\ spc' = "done"
    /\ UNCHANGED <<tree, calls, snap, finderVars, imageVars, cleanerVars, serviceVars>>

\* The caller invokes sanitize_content on the same node once more.
SanitizeAgain ==
    /\ spc = "done"
    /\ calls < MaxCalls
    /\ calls' = calls + 1
    /\ snap' = parent
    /\ removals' = 0
    /\ spc' = "links"
    /\ UNCHANGED <<tree, parent, finderVars, imageVars, cleanerVars, serviceVars>>

SanitizerNext ==
    \/ RemoveEmptyLinks
    \/ RemoveEmptyImages
    \/ RemoveEmptyBlocks
    \/ SanitizeAgain

SpecSanitizer == SanitizerInit /\ [][SanitizerNext]_vars

(***************************************************************************)
(* _has_valid_image_src called on src values composed of the fragments the *)
(* rule looks for, once as composed and once in another letter case.       *)
(***************************************************************************)
MaxParts == 3

UpperChar(c) ==
    IF \E i \in DOMAIN LowerChars : LowerChars[i] = c
    THEN UpperChars[CHOOSE i \in DOMAIN LowerChars : LowerChars[i] = c]
    ELSE c

StrUpper(str) == [i \in 1..Len(str) |-> UpperChar(str[i])]

\* str.capitalize() on a lower-case str
StrCapitalize(str) ==
    IF str = <<>> THEN str ELSE <<UpperChar(str[1])>> \o Tail(str)

SrcFragments ==
    { <<"h", "t", "t", "p", ":", "/", "/">>,
      <<"d", "a", "t", "a", ":">>,
      <<"/">>,
      <<".">>,
      <<" ">>,
      <<"x">>,
      <<"t", "r", "a", "c", "k", "i", "n", "g", ".">>,
      <<"/", "p", "i", "x", "e", "l", ".", "g", "i", "f">>,
      <<"t", ".", "g", "i", "f">>,
      <<"b", "g", ".", "j", "p", "g">> }

RECURSIVE Concat(_)
Concat(parts) ==
    IF parts = <<>> THEN <<>> ELSE Head(parts) \o Concat(Tail(parts))

LetterCases == {"lower", "upper", "capitalized"}

InCase(case, str) ==
    IF case = "upper" THEN StrUpper(str)
    ELSE IF case = "capitalized" THEN StrCapitalize(str)
    ELSE str

\* The return statement of _has_valid_image_src a present src leaves by
\* (its line in content_sanitizer.py).
ReturnLine(src) ==
    LET src_str == StrStrip(src)
        src_lower == StrLower(src_str)
    IN IF src_str = <<>> THEN 79
       ELSE IF \E pattern \in tracking_patterns : StrContains(src_lower, pattern)
       THEN 98
       ELSE IF /\ StrContains(src_str, SchemeSep)
               /\ \E prefix \in tracking_domain_prefixes :
                     StartsWith(SrcDomain(src_str), prefix)
       THEN 115
       ELSE IF \E prefix \in kept_prefixes : StartsWith(src_str, prefix)
       THEN 121
       ELSE 124

ImageInit ==
    /\ FinderIdle
    /\ SanitizerIdle
    /\ CleanerIdle
    /\ ServiceIdle
    /\ \E n \in 0..MaxParts :
          \E parts \in [1..n -> SrcFragments], case1, case2 \in LetterCases :
             srcs = <<InCase(case1, Concat(parts)), InCase(case2, Concat(parts))>>
    /\ checked = <<>>

\* One call of _has_valid_image_src, on the next src.
HasValidImageSrc ==
    /\ Len(checked) < Len(srcs)
    /\ LET src == srcs[Len(checked) + 1]
       IN checked' = Append(checked,
                            [valid |-> has_valid_image_src([a \in {"src"} |-> src]),
                             line |-> ReturnLine(src)])
    /\ UNCHANGED <<srcs, finderVars, sanitizerVars, cleanerVars, serviceVars>>

ImageNext == HasValidImageSrc

SpecImage == ImageInit /\ [][ImageNext]_vars

(***************************************************************************)
(* document_cleaner.clean_document(doc, strip_selector, role_selector).    *)
(* Node 1 is the document; the nodes behind it are its elements in         *)
(* document order.  A selector is the set of simple selectors its commas   *)
(* join (a tag name or [role="..."]); the empty string is the empty set.   *)
(***************************************************************************)
DocRoot == 1

MaxElems == 3

CleanerTags == {"nav", "div"}

CleanerRoles == {"", "navigation"}

SimpleSelectors ==
    {[kind |-> "tag", value |-> "nav"], [kind |-> "role", value |-> "navigation"]}

Selectors == SUBSET SimpleSelectors

DocumentNode == [tag |-> "#document", role |-> "", parent |-> None]

CleanerElements(parents) ==
    [tag : CleanerTags, role : CleanerRoles, parent : parents]

\* Each element is a child of the node before it or of one of that node's
\* ancestors.
RECURSIVE ParsedInOrder(_, _)
ParsedInOrder(d, n) ==
    IF n <= DocRoot THEN TRUE
    ELSE IF ~ParsedInOrder(d, n - 1) THEN FALSE
    ELSE IF d[n].parent >= n THEN FALSE
    ELSE d[n].parent \in ParsedChain(d, n - 1)

\* The nodes of 1..n whose parent is p, in document order.
RECURSIVE ChildrenUpTo(_, _, _)
ChildrenUpTo(d, p, n) ==
    IF n = 0 THEN <<>>
    ELSE ChildrenUpTo(d, p, n - 1) \o (IF d[n].parent = p THEN <<n>> ELSE <<>>)

ParsedChildren(d) == [p \in 1..Len(d) |-> ChildrenUpTo(d, p, Len(d))]

ParsedParents(d) == [n \in 1..Len(d) |-> d[n].parent]

SelectorMatches(el, selector) ==
    \E simple \in selector :
       IF simple.kind = "tag" THEN el.tag = simple.value
       ELSE el.role = simple.value

\* doc.query(selector): the matching elements below the document, in
\* document order.
RECURSIVE QueryDocFrom(_, _, _, _)
QueryDocFrom(d, par, selector, i) ==
    IF i > Len(d) THEN <<>>
    ELSE (IF /\ i # DocRoot
             /\ SelectorMatches(d[i], selector)
             /\ InSubtree(par, i, DocRoot)
          THEN <<i>> ELSE <<>>) \o QueryDocFrom(d, par, selector, i + 1)

QueryDoc(d, par, selector) == QueryDocFrom(d, par, selector, 1)

RECURSIVE Without(_, _)
Without(seq, x) ==
    IF seq = <<>> THEN <<>>
    ELSE (IF Head(seq) = x THEN <<>> ELSE <<Head(seq)>>) \o Without(Tail(seq), x)

\* A cleaner state is the pair (parent, children).
remove_child_AndLaterSiblings(st, p, node) ==
    LET pos == CHOOSE k \in 1..Len(st.children[p]) : st.children[p][k] = node
        gone == {st.children[p][k] : k \in pos..Len(st.children[p])}
    IN [parent |-> [n \in DOMAIN st.parent |->
                       IF n \in gone THEN None ELSE st.parent[n]],
        children |-> [st.children EXCEPT ![p] = SubSeq(@, 1, pos - 1)]]

\* parent.remove_child(node)
remove_child(st, p, node) ==
    [parent |-> [st.parent EXCEPT ![node] = None],
     children |-> [st.children EXCEPT ![p] = Without(@, node)]]

RECURSIVE DetachAll(_, _)
DetachAll(st, nodes) ==
    IF nodes = <<>> THEN st
    ELSE LET node == Head(nodes)
             p == st.parent[node]
         IN DetachAll(IF p # None THEN remove_child(st, p, node) ELSE st,
                      Tail(nodes))

remove_nodes_by_selector_FirstMatchOnly(d, st, selector) ==
    IF selector = {} THEN st
    ELSE LET matched == QueryDoc(d, st.parent, selector)
         IN DetachAll(st, IF matched = <<>> THEN <<>> ELSE <<Head(matched)>>)

remove_nodes_by_selector(d, st, selector) ==
    IF selector = {} THEN st
    ELSE DetachAll(st, QueryDoc(d, st.parent, selector))

clean_document_StripOnly(d, st, strip, role) ==
    remove_nodes_by_selector(d, st, strip)

clean_document(d, st, strip, role) ==
    remove_nodes_by_selector(d, remove_nodes_by_selector(d, st, strip), role)

CleanerInit ==
    /\ FinderIdle
    /\ SanitizerIdle
    /\ ImageIdle
    /\ ServiceIdle
    /\ \E k \in 0..MaxElems :
          \E elems \in [1..k -> CleanerElements(DocRoot..(DocRoot + k - 1))] :
             /\ cdoc = <<DocumentNode>> \o elems
             /\ ParsedInOrder(cdoc, Len(cdoc))
    /\ cparent = ParsedParents(cdoc)
    /\ children = ParsedChildren(cdoc)
    /\ strip_selector \in Selectors
    /\ role_selector \in Selectors
    /\ returned = None

CleanDocument ==
    /\ returned = None
    /\ LET st == clean_document(cdoc, [parent |-> cparent, children |-> children],
                                strip_selector, role_selector)
       IN /\ cparent' = st.parent
          /\ children' = st.children
    /\ returned' = DocRoot
    /\ UNCHANGED <<cdoc, strip_selector, role_selector>>
    /\ UNCHANGED <<finderVars, sanitizerVars, imageVars, serviceVars>>

CleanerNext == CleanDocument

SpecCleaner == CleanerInit /\ [][CleanerNext]_vars

(***************************************************************************)
(* server.ExtractionResponseCache: an OrderedDict with a size limit.  The  *)
(* store is the sequence of its (key, value) entries, oldest first.        *)
(***************************************************************************)
MaxKeys == 3
MaxSize == 2
MaxValues == 2

CacheKeys == 1..MaxKeys

CacheValues == 1..MaxValues

\* The sizes a cache may be constructed with, zero and a negative one included.
CtorSizes == (0 - 1)..MaxSize

StoreKeys(s) == {s[i][1] : i \in DOMAIN s}

StoreIndex(s, key) ==
    IF key \in StoreKeys(s) THEN CHOOSE i \in DOMAIN s : s[i][1] = key ELSE 0

\* OrderedDict.get(key): the value, or None.
StoreGet(s, key) ==
    IF StoreIndex(s, key) = 0 THEN None ELSE s[StoreIndex(s, key)][2]

\* OrderedDict.move_to_end(key).
move_to_end(s, key) ==
    LET i == StoreIndex(s, key)
    IN SubSeq(s, 1, i - 1) \o SubSeq(s, i + 1, Len(s)) \o <<s[i]>>

\* self._store[key] = value: in place for a stored key, appended otherwise.
StoreAssign(s, key, value) ==
    IF key \in StoreKeys(s)
    THEN [s EXCEPT ![StoreIndex(s, key)] = <<key, value>>]
    ELSE Append(s, <<key, value>>)

\* self.max_size = max(1, max_size)
CacheMaxSize(requested) == IF requested > 1 THEN requested ELSE 1

\* while len(self._store) > self.max_size: self._store.popitem(last=False)
RECURSIVE PopOldest_Newest(_, _)
PopOldest_Newest(s, limit) ==
    IF Len(s) > limit THEN PopOldest_Newest(SubSeq(s, 1, Len(s) - 1), limit) ELSE s

RECURSIVE PopOldest(_, _)
PopOldest(s, limit) ==
    IF Len(s) > limit THEN PopOldest(Tail(s), limit) ELSE s

\* ExtractionResponseCache.get: the value and the store as the call leaves it.
cache_get_NoTouch(s, key) ==
    [value |-> StoreGet(s, key), store |-> s]

cache_get(s, key) ==
    LET value == StoreGet(s, key)
    IN [value |-> value,
        store |-> IF value # None THEN move_to_end(s, key) ELSE s]

\* ExtractionResponseCache.set.
cache_set_Unbounded(s, limit, key, value) ==
    move_to_end(StoreAssign(s, key, value), key)

cache_set(s, limit, key, value) ==
    PopOldest(move_to_end(StoreAssign(s, key, value), key), limit)

\* ExtractionResponseCache.clear.
cache_clear(s) == <<>>

\* The keys by their last get-hit or set, oldest first, after key was used.
Touch(order, key) == SelectSeq(order, LAMBDA k : k # key) \o <<key>>

CacheInit ==
    /\ FinderIdle
    /\ SanitizerIdle
    /\ ImageIdle
    /\ CleanerIdle
    /\ ServerIdle
    /\ SettingsIdle
    /\ FetcherIdle
    /\ store = <<>>
    /\ \E requested \in CtorSizes : max_size = CacheMaxSize(requested)
    /\ recency = <<>>
    /\ lastOp = NoOp

CacheGet(key) ==
    LET r == cache_get(store, key)
    IN /\ store' = r.store
       /\ recency' = IF r.value # None THEN Touch(recency, key) ELSE recency
       /\ lastOp' = [op |-> "get", key |-> key, value |-> None,
                     result |-> r.value, evicted |-> {}]
       /\ UNCHANGED max_size
       /\ UNCHANGED <<finderVars, sanitizerVars, imageVars, cleanerVars, serverVars, settingsVars, fetcherVars>>

CacheSet(key, value) ==
    /\ store' = cache_set(store, max_size, key, value)
    /\ recency' = Touch(recency, key)
    /\ lastOp' = [op |-> "set", key |-> key, value |-> value, result |-> None,
                  evicted |-> (StoreKeys(store) \cup {key}) \ StoreKeys(store')]
    /\ UNCHANGED max_size
    /\ UNCHANGED <<finderVars, sanitizerVars, imageVars, cleanerVars, serverVars, settingsVars, fetcherVars>>

CacheClear ==
    /\ store' = cache_clear(store)
    /\ lastOp' = [op |-> "clear", key |-> None, value |-> None, result |-> None,
                  evicted |-> {}]
    /\ UNCHANGED <<max_size, recency>>
    /\ UNCHANGED <<finderVars, sanitizerVars, imageVars, cleanerVars, serverVars, settingsVars, fetcherVars>>

CacheNext ==
    \/ \E key \in CacheKeys : CacheGet(key)
    \/ \E key \in CacheKeys, value \in CacheValues : CacheSet(key, value)
    \/ CacheClear

SpecCache == CacheInit /\ [][CacheNext]_vars

(***************************************************************************)
(* server.extract_article_endpoint (POST /) with the response cache, and   *)
(* server.lifespan.  The handler awaits the extraction once; the cache     *)
(* lock is only ever held across a get or a set, which do not await, so    *)
(* the lookup and the store are atomic with the code around them.          *)
(***************************************************************************)
MaxRequests == 2
MaxUrls == 2

Requests == 1..MaxRequests

Urls == 1..MaxUrls

\* ExtractionOptions(min_word_count=150, min_char_threshold=500, ...)
EndpointOptions == <<"150", "500", "1", "1", "1">>

\* "|".join([url, str(options.min_word_count), ...])
build_cache_key_OptionsOnly(url, options) == options

build_cache_key(url, options) == <<url>> \o options

\* What awaiting extract_article_from_url can give: a result (success or
\* not, with its error text, "" standing for None) or an exception.
ExtractionOutcomes ==
    {[raised |-> FALSE, success |-> TRUE, content |-> c, error |-> ""] :
        c \in CacheValues}
    \cup {[raised |-> FALSE, success |-> FALSE, content |-> c, error |-> e] :
        c \in CacheValues, e \in {"", "fetch failed"}}
    \cup {[raised |-> TRUE, success |-> FALSE, content |-> None, error |-> "boom"]}

\* ExtractionResponse(url=result.url, ..., content=result.content, ...)
ExtractionResponse(article) == article.content

\* The try block from the awaited extraction on: what it raises or returns,
\* and whether it got to _store_cache_entry.
try_block_StoreFirst(outcome) ==
    IF outcome.raised
    THEN [raise |-> "Exception", status_code |-> None, detail |-> <<outcome.error>>,
          response |-> None, stored |-> FALSE]
    ELSE IF ~outcome.success
    THEN [raise |-> "HTTPException", status_code |-> 422,
          detail |-> <<"Failed to extract article: ",
                       IF outcome.error # "" THEN outcome.error ELSE "Unknown error">>,
          response |-> ExtractionResponse(outcome), stored |-> TRUE]
    ELSE [raise |-> "", status_code |-> 200, detail |-> <<>>,
          response |-> ExtractionResponse(outcome), stored |-> TRUE]

try_block(outcome) ==
    IF outcome.raised
    THEN [raise |-> "Exception", status_code |-> None, detail |-> <<outcome.error>>,
          response |-> None, stored |-> FALSE]
    ELSE IF ~outcome.success
    THEN [raise |-> "HTTPException", status_code |-> 422,
          detail |-> <<"Failed to extract article: ",
                       IF outcome.error # "" THEN outcome.error ELSE "Unknown error">>,
          response |-> None, stored |-> FALSE]
    ELSE [raise |-> "", status_code |-> 200, detail |-> <<>>,
          response |-> ExtractionResponse(outcome), stored |-> TRUE]

\* except HTTPException: raise / except Exception as e: raise HTTPException(500)
except_clauses_AllInternal(t) ==
    IF t.raise # ""
    THEN [t EXCEPT !.raise = "HTTPException", !.status_code = 500,
                   !.detail = <<"Internal server error: ">> \o t.detail]
    ELSE t

except_clauses(t) ==
    IF t.raise = "HTTPException" THEN t
    ELSE IF t.raise = "Exception"
    THEN [t EXCEPT !.raise = "HTTPException", !.status_code = 500,
                   !.detail = <<"Internal server error: ">> \o t.detail]
    ELSE t

OutcomeKind(outcome) ==
    IF outcome.raised THEN "exception"
    ELSE IF outcome.success THEN "success" ELSE "failure"

ServerInit ==
    /\ FinderIdle
    /\ SanitizerIdle
    /\ ImageIdle
    /\ CleanerIdle
    /\ CacheIdle
    /\ SettingsIdle
    /\ FetcherIdle
    /\ running = FALSE
    /\ inflight = [r \in Requests |-> None]
    /\ lastSuccess = [u \in Urls |-> None]
    /\ lastResponse = NoResponse

\* lifespan, up to the yield: cache = ExtractionResponseCache(settings.cache_size)
Startup(cache_size) ==
    /\ ~running
    /\ running' = TRUE
    /\ max_size' = CacheMaxSize(cache_size)
    /\ store' = <<>>
    /\ lastResponse' = NoResponse
    /\ UNCHANGED <<inflight, lastSuccess, recency, lastOp>>
    /\ UNCHANGED <<finderVars, sanitizerVars, imageVars, cleanerVars, settingsVars, fetcherVars>>

\* lifespan, after the yield: cache.clear().  The server has answered the
\* requests it accepted before it runs the shutdown.
Shutdown ==
    /\ running
    /\ \A r \in Requests : inflight[r] = None
    /\ running' = FALSE
    /\ store' = cache_clear(store)
    /\ max_size' = None
    /\ lastResponse' = NoResponse
    /\ UNCHANGED <<inflight, lastSuccess, recency, lastOp>>
    /\ UNCHANGED <<finderVars, sanitizerVars, imageVars, cleanerVars, settingsVars, fetcherVars>>

\* POST / up to the awaited extraction: the lookup, and the answer on a hit.
PostLookup(r, url) ==
    LET cached == cache_get(store, build_cache_key(url, EndpointOptions))
    IN /\ running
       /\ inflight[r] = None
       /\ store' = cached.store
       /\ IF cached.value # None
          THEN /\ lastResponse' = [url |-> url, kind |-> "hit", status_code |-> 200,
                                   detail |-> <<>>, response |-> cached.value,
                                   error |-> ""]
               /\ lastSuccess' = [lastSuccess EXCEPT ![url] = cached.value]
               /\ UNCHANGED inflight
          ELSE /\ lastResponse' = [NoResponse EXCEPT !.url = url, !.kind = "miss"]
               /\ inflight' = [inflight EXCEPT ![r] = url]
               /\ UNCHANGED lastSuccess
       /\ UNCHANGED <<running, max_size, recency, lastOp>>
       /\ UNCHANGED <<finderVars, sanitizerVars, imageVars, cleanerVars, settingsVars, fetcherVars>>

\* POST / from the awaited extraction on: the result check, the store, the
\* except clauses.
PostExtracted(r, outcome) ==
    LET url == inflight[r]
        t == except_clauses(try_block(outcome))
    IN /\ inflight[r] # None
       /\ store' = IF t.stored
                   THEN cache_set(store, max_size,
                                  build_cache_key(url, EndpointOptions), t.response)
                   ELSE store
       /\ lastResponse' = [url |-> url, kind |-> OutcomeKind(outcome),
                           status_code |-> t.status_code, detail |-> t.detail,
                           response |-> t.response, error |-> outcome.error]
       /\ lastSuccess' = IF t.raise = ""
                         THEN [lastSuccess EXCEPT ![url] = t.response]
                         ELSE lastSuccess
       /\ inflight' = [inflight EXCEPT ![r] = None]
       /\ UNCHANGED <<running, max_size, recency, lastOp>>
       /\ UNCHANGED <<finderVars, sanitizerVars, imageVars, cleanerVars, settingsVars, fetcherVars>>

ServerNext ==
    \/ \E cache_size \in 1..MaxSize : Startup(cache_size)
    \/ Shutdown
    \/ \E r \in Requests, url \in Urls : PostLookup(r, url)
    \/ \E r \in Requests, outcome \in ExtractionOutcomes : PostExtracted(r, outcome)

SpecServer == ServerInit /\ [][ServerNext]_vars

(***************************************************************************)
(* settings.ServiceSettings, get_settings and reload_settings, and the     *)
(* server's use of them: lifespan sizes the cache from get_settings(),     *)
(* /health reports the cache's size limit.  Of the settings only           *)
(* cache_size is modelled.  A raw value is a text (from the environment)   *)
(* or an integer (from a keyword override).                                *)
(***************************************************************************)
MaxBuilds == 3

Text(t) == [str |-> <<t>>, int |-> <<>>]

Number(n) == [str |-> <<>>, int |-> <<n>>]

\* The values ARTICLE_EXTRACTOR_CACHE_SIZE takes, <<>> when it is unset.
EnvValues == {<<>>, <<"">>, <<"5">>, <<"2">>, <<"0">>, <<"abc">>}

\* The keyword arguments of a reload_settings call: none, another field
\* only, or a cache_size.
OverrideArgs ==
    {[given |-> FALSE, cache_size |-> <<>>], [given |-> TRUE, cache_size |-> <<>>]}
    \cup {[given |-> TRUE, cache_size |-> <<n>>] : n \in {3, 7}}

\* int(value): <<n>>, or <<>> for a ValueError.
ParseInt(value) ==
    IF value.int # <<>> THEN value.int
    ELSE IF value.str = <<"5">> THEN <<5>>
    ELSE IF value.str = <<"2">> THEN <<2>>
    ELSE IF value.str = <<"0">> THEN <<0>>
    ELSE <<>>

\* ServiceSettings._coerce_cache_size
coerce_cache_size(value) ==
    IF value.str = <<"">> THEN 1000
    ELSE LET parsed == ParseInt(value)
         IN IF parsed = <<>> THEN 1000
            ELSE IF parsed[1] <= 0 THEN 1 ELSE parsed[1]

\* ServiceSettings(**kwargs).cache_size: the keyword, else the environment,
\* else Field(default=1000).
ServiceSettings(kwargs, environment) ==
    IF kwargs # <<>> /\ kwargs[1].cache_size # <<>>
    THEN coerce_cache_size(Number(kwargs[1].cache_size[1]))
    ELSE IF environment # <<>>
    THEN coerce_cache_size(Text(environment[1]))
    ELSE 1000

\* _load_settings under lru_cache(maxsize=1): the instance it returns and
\* the number of instances built so far.
load_settings_Uncached(cache, override, environment, count) ==
    [instance |-> [id |-> count + 1,
                   cache_size |-> ServiceSettings(override, environment)],
     built |-> count + 1]

load_settings(cache, override, environment, count) ==
    IF cache # NoSettings
    THEN [instance |-> cache, built |-> count]
    ELSE [instance |-> [id |-> count + 1,
                        cache_size |-> ServiceSettings(override, environment)],
          built |-> count + 1]

\* The state once article_extractor.server is imported: _configure_logging()
\* has called get_settings().
SettingsInit ==
    /\ FinderIdle
    /\ SanitizerIdle
    /\ ImageIdle
    /\ CleanerIdle
    /\ CacheIdle
    /\ ServerIdle
    /\ FetcherIdle
    /\ env \in EnvValues
    /\ settings_override = <<>>
    /\ loaded = load_settings(NoSettings, <<>>, env, 0).instance
    /\ built = 1
    /\ lastGet = NoSettings
    /\ lastReload = NoReload
    /\ startupSaw = <<>>
    /\ health = None

\* The environment variable is set, changed or removed.
SetEnv(value) ==
    /\ env # value
    /\ env' = value
    /\ UNCHANGED <<settings_override, loaded, built, lastGet, lastReload, startupSaw, health>>
    /\ UNCHANGED <<finderVars, sanitizerVars, imageVars, cleanerVars, cacheVars, serverVars, fetcherVars>>

GetSettings ==
    LET got == load_settings(loaded, settings_override, env, built)
    IN /\ loaded' = got.instance
       /\ built' = got.built
       /\ lastGet' = got.instance
       /\ UNCHANGED <<env, settings_override, lastReload, startupSaw, health>>
       /\ UNCHANGED <<finderVars, sanitizerVars, imageVars, cleanerVars, cacheVars, serverVars, fetcherVars>>

\* reload_settings(**overrides): cache_clear(), _SETTINGS_OVERRIDE =
\* overrides or None, _load_settings().
reload_settings_KeepOverride(overrides) ==
    LET override == IF overrides.given THEN <<overrides>> ELSE settings_override
        got == load_settings(NoSettings, override, env, built)
    IN /\ built < MaxBuilds
       /\ settings_override' = override
       /\ loaded' = got.instance
       /\ built' = got.built
       /\ lastGet' = NoSettings
       /\ lastReload' = [id |-> got.instance.id, overrides |-> overrides.cache_size,
                         env |-> env,
                         discarded |-> ~overrides.given /\ settings_override # <<>>]
       /\ UNCHANGED <<env, startupSaw, health>>
       /\ UNCHANGED <<finderVars, sanitizerVars, imageVars, cleanerVars, cacheVars, serverVars, fetcherVars>>

reload_settings(overrides) ==
    LET override == IF overrides.given THEN <<overrides>> ELSE <<>>
        got == load_settings(NoSettings, override, env, built)
    IN /\ built < MaxBuilds
       /\ settings_override' = override
       /\ loaded' = got.instance
       /\ built' = got.built
       /\ lastGet' = NoSettings
       /\ lastReload' = [id |-> got.instance.id, overrides |-> overrides.cache_size,
                         env |-> env,
                         discarded |-> ~overrides.given /\ settings_override # <<>>]
       /\ UNCHANGED <<env, startupSaw, health>>
       /\ UNCHANGED <<finderVars, sanitizerVars, imageVars, cleanerVars, cacheVars, serverVars, fetcherVars>>

\* lifespan, up to the yield, with the settings it reads.
SettingsStartup ==
    LET got == load_settings(loaded, settings_override, env, built)
    IN /\ ~running
       /\ running' = TRUE
       /\ loaded' = got.instance
       /\ built' = got.built
       /\ max_size' = CacheMaxSize(got.instance.cache_size)
       /\ store' = <<>>
       /\ startupSaw' = <<[env |-> env, overridden |-> settings_override # <<>>]>>
       /\ health' = None
       /\ UNCHANGED <<env, settings_override, lastGet, lastReload>>
       /\ UNCHANGED <<inflight, lastSuccess, lastResponse, recency, lastOp>>
       /\ UNCHANGED <<finderVars, sanitizerVars, imageVars, cleanerVars, fetcherVars>>

\* lifespan, after the yield.
SettingsShutdown ==
    /\ running
    /\ running' = FALSE
    /\ store' = cache_clear(store)
    /\ max_size' = None
    /\ UNCHANGED <<inflight, lastSuccess, lastResponse, recency, lastOp>>
    /\ UNCHANGED settingsVars
    /\ UNCHANGED <<finderVars, sanitizerVars, imageVars, cleanerVars, fetcherVars>>

\* A successful POST / stores its response.
StoreResponse(value) ==
    /\ running
    /\ store' = cache_set(store, max_size, build_cache_key(1, EndpointOptions), value)
    /\ UNCHANGED <<max_size, recency, lastOp>>
    /\ UNCHANGED <<serverVars, settingsVars>>
    /\ UNCHANGED <<finderVars, sanitizerVars, imageVars, cleanerVars, fetcherVars>>

\* GET /health: "max_size": cache.max_size if cache else _read_cache_size().
\* The cache defines __len__, so an empty cache is false.
HealthCheck ==
    LET got == load_settings(loaded, settings_override, env, built)
    IN /\ running
       /\ IF Len(store) # 0
          THEN /\ health' = max_size
               /\ UNCHANGED <<loaded, built>>
          ELSE /\ health' = got.instance.cache_size
               /\ loaded' = got.instance
               /\ built' = got.built
       /\ UNCHANGED <<env, settings_override, lastGet, lastReload, startupSaw>>
       /\ UNCHANGED <<cacheVars, serverVars>>
       /\ UNCHANGED <<finderVars, sanitizerVars, imageVars, cleanerVars, fetcherVars>>

SettingsNext ==
    \/ \E value \in EnvValues : SetEnv(value)
    \/ GetSettings
    \/ \E overrides \in OverrideArgs : reload_settings(overrides)
    \/ SettingsStartup
    \/ SettingsShutdown
    \/ \E value \in CacheValues : StoreResponse(value)
    \/ HealthCheck

SpecSettings == SettingsInit /\ [][SettingsNext]_vars

(***************************************************************************)
(* fetcher.PlaywrightFetcher: __aenter__, __aexit__ and concurrent fetch   *)
(* calls.  A fetch call stops at its awaits: the semaphore's acquire, the  *)
(* context's new_page, the work on the page inside the try, and the        *)
(* page's close in the finally.  A call may be cancelled at each of them.  *)
(* The browser is the environment: a new_page request it has received      *)
(* makes a page whether or not the caller still awaits it, and closing the *)
(* context closes its pages.                                               *)
(***************************************************************************)
MAX_CONCURRENT_PAGES == 3

MaxFetches == 4
MaxEnters == 1

Fetches == 1..MaxFetches

NewFetch == [pc |-> "new", sem |-> None, ctx |-> None, outcome |-> ""]

\* The ways the work on the page ends: content returned, the TimeoutError
\* branch's 408, an exception of goto or of the waits, a cancellation.
PageOutcomes == {"ok", "408", "error", "cancelled"}

HeldPcs == {"opening", "loaded", "closing"}

\* Semaphore.release()
release(values, sem) == [values EXCEPT ![sem] = values[sem] + 1]

FetcherInit ==
    /\ FinderIdle
    /\ SanitizerIdle
    /\ ImageIdle
    /\ CleanerIdle
    /\ CacheIdle
    /\ ServerIdle
    /\ SettingsIdle
    /\ fcontext = None
    /\ fsemaphore = None
    /\ permits = <<>>
    /\ fetches = [t \in Fetches |-> NewFetch]
    /\ pages = [t \in Fetches |-> "none"]

\* __aenter__: a new context and a new Semaphore(MAX_CONCURRENT_PAGES).
Enter ==
    /\ fcontext = None
    /\ Len(permits) < MaxEnters
    /\ permits' = Append(permits, MAX_CONCURRENT_PAGES)
    /\ fcontext' = Len(permits) + 1
    /\ fsemaphore' = Len(permits) + 1
    /\ UNCHANGED <<fetches, pages>>
    /\ UNCHANGED <<finderVars, sanitizerVars, imageVars, cleanerVars, cacheVars, serverVars, settingsVars>>

\* __aexit__: the context is closed, and its pages with it.
Exit ==
    /\ fcontext # None
    /\ fcontext' = None
    /\ fsemaphore' = None
    /\ pages' = [t \in Fetches |->
                    IF pages[t] \in {"open", "closing"} THEN "closed" ELSE pages[t]]
    /\ UNCHANGED <<permits, fetches>>
    /\ UNCHANGED <<finderVars, sanitizerVars, imageVars, cleanerVars, cacheVars, serverVars, settingsVars>>

\* The acquire has succeeded: page = await self._context.new_page() is next.
\* On an exited fetcher self._context is None and the call raises at once.
new_page_call(t, sem) ==
    IF fcontext = None
    THEN /\ fetches' = [fetches EXCEPT ![t] =
                           [pc |-> "done", sem |-> sem, ctx |-> None, outcome |-> "error"]]
         /\ UNCHANGED permits
    ELSE /\ fetches' = [fetches EXCEPT ![t] =
                           [pc |-> "opening", sem |-> sem, ctx |-> fcontext, outcome |-> ""]]
         /\ permits' = [permits EXCEPT ![sem] = permits[sem] - 1]

\* fetch is called: the RuntimeError check, then async with self._semaphore.
FetchCall(t) ==
    /\ fetches[t].pc = "new"
    /\ IF fcontext = None \/ fsemaphore = None
       THEN /\ fetches' = [fetches EXCEPT ![t] =
                              [NewFetch EXCEPT !.pc = "done", !.outcome = "RuntimeError"]]
            /\ UNCHANGED permits
       ELSE IF permits[fsemaphore] > 0
       THEN new_page_call(t, fsemaphore)
       ELSE /\ fetches' = [fetches EXCEPT ![t] =
                              [NewFetch EXCEPT !.pc = "waiting", !.sem = fsemaphore]]
            /\ UNCHANGED permits
    /\ UNCHANGED <<fcontext, fsemaphore, pages>>
    /\ UNCHANGED <<finderVars, sanitizerVars, imageVars, cleanerVars, cacheVars, serverVars, settingsVars>>

\* A waiting call gets its slot.
Acquire(t) ==
    /\ fetches[t].pc = "waiting"
    /\ permits[fetches[t].sem] > 0
    /\ new_page_call(t, fetches[t].sem)
    /\ UNCHANGED <<fcontext, fsemaphore, pages>>
    /\ UNCHANGED <<finderVars, sanitizerVars, imageVars, cleanerVars, cacheVars, serverVars, settingsVars>>

\* new_page returns the page, or raises when the context was closed.
NewPageReturns(t) ==
    /\ fetches[t].pc = "opening"
    /\ IF fcontext = fetches[t].ctx
       THEN /\ pages' = [pages EXCEPT ![t] = "open"]
            /\ fetches' = [fetches EXCEPT ![t].pc = "loaded"]
            /\ UNCHANGED permits
       ELSE /\ fetches' = [fetches EXCEPT ![t].pc = "done", ![t].outcome = "error"]
            /\ permits' = release(permits, fetches[t].sem)
            /\ UNCHANGED pages
    /\ UNCHANGED <<fcontext, fsemaphore>>
    /\ UNCHANGED <<finderVars, sanitizerVars, imageVars, cleanerVars, cacheVars, serverVars, settingsVars>>

\* The try block ends, by a return or by an exception (a cancellation
\* included), and the finally awaits page.close().
TryEnds(t, outcome) ==
    /\ fetches[t].pc = "loaded"
    /\ fetches' = [fetches EXCEPT ![t].pc = "closing", ![t].outcome = outcome]
    /\ pages' = [pages EXCEPT ![t] = IF pages[t] = "open" THEN "closing" ELSE pages[t]]
    /\ UNCHANGED <<fcontext, fsemaphore, permits>>
    /\ UNCHANGED <<finderVars, sanitizerVars, imageVars, cleanerVars, cacheVars, serverVars, settingsVars>>

\* page.close() returns; the async with releases the slot; fetch returns or
\* raises.
CloseReturns(t) ==
    /\ fetches[t].pc = "closing"
    /\ pages' = [pages EXCEPT ![t] = "closed"]
    /\ fetches' = [fetches EXCEPT ![t].pc = "done"]
    /\ permits' = release(permits, fetches[t].sem)
    /\ UNCHANGED <<fcontext, fsemaphore>>
    /\ UNCHANGED <<finderVars, sanitizerVars, imageVars, cleanerVars, cacheVars, serverVars, settingsVars>>

\* The call is cancelled: CancelledError is raised at the await it stands
\* at.  While it waits for the semaphore it holds nothing.  At new_page
\* there is no try around the await: the slot is released, and the page the
\* browser makes for the request, if it makes one, stays open.  At
\* page.close() the slot is released while the browser is still closing.
Cancel(t) ==
    /\ fetches[t].pc \in {"waiting", "opening", "closing"}
    /\ fetches' = [fetches EXCEPT ![t].pc = "done", ![t].outcome = "cancelled"]
    /\ permits' = IF fetches[t].pc = "waiting" THEN permits
                  ELSE release(permits, fetches[t].sem)
    /\ IF fetches[t].pc = "opening" /\ fcontext = fetches[t].ctx
       THEN \E made \in {"none", "open"} : pages' = [pages EXCEPT ![t] = made]
       ELSE UNCHANGED pages
    /\ UNCHANGED <<fcontext, fsemaphore>>
    /\ UNCHANGED <<finderVars, sanitizerVars, imageVars, cleanerVars, cacheVars, serverVars, settingsVars>>

\* The browser finishes a close whose caller was cancelled.
BrowserCloses(t) ==
    /\ fetches[t].pc = "done"
    /\ pages[t] = "closing"
    /\ pages' = [pages EXCEPT ![t] = "closed"]
    /\ UNCHANGED <<fcontext, fsemaphore, permits, fetches>>
    /\ UNCHANGED <<finderVars, sanitizerVars, imageVars, cleanerVars, cacheVars, serverVars, settingsVars>>

FetcherNext ==
    \/ Enter
    \/ Exit
    \/ \E t \in Fetches : FetchCall(t)
    \/ \E t \in Fetches : Acquire(t)
    \/ \E t \in Fetches : NewPageReturns(t)
    \/ \E t \in Fetches, outcome \in PageOutcomes : TryEnds(t, outcome)
    \/ \E t \in Fetches : CloseReturns(t)
    \/ \E t \in Fetches : Cancel(t)
    \/ \E t \in Fetches : BrowserCloses(t)

SpecFetcher == FetcherInit /\ [][FetcherNext]_vars

(***************************************************************************)
(* Properties of find_top_candidate (checked under SpecFinder).            *)
(***************************************************************************)
DocNodes == 1..Len(doc)

IsSemantic(n) == doc[n].tag \in {"article", "main"} \/ doc[n].role = "main"

IsFallbackTag(n) == doc[n].tag \in {"div", "section"}

Unlikely(n) == is_unlikely_candidate(doc[n])

\* The nodes the semantic phase admits.
SemanticAdmissible == {n \in DocNodes : IsSemantic(n) /\ ~Unlikely(n)}

\* The nodes the fallback phase admits, when it runs.
FallbackAdmissible ==
    {n \in DocNodes : IsFallbackTag(n) /\ doc[n].textLen > MIN_CHAR_THRESHOLD /\ ~Unlikely(n)}

BodyNodes == {n \in DocNodes : doc[n].tag = "body"}

RankedNodes == {ranked[k].node : k \in 1..Len(ranked)}

\* Every node that was a candidate, was ranked or was returned.
Handled == SeqToSet(candidates) \cup RankedNodes \cup (IF result = None THEN {} ELSE {result})

C2_UnlikelyNeverHandled ==
    pc = "done" => \A n \in Handled : ~Unlikely(n)

\* C2 as amended: add_if_new never admits an unlikely node, so none enters
\* the candidate set through the semantic or the fallback scan; the one
\* unlikely node that can be ranked and returned is the document's first
\* body element, taken unfiltered as the last resort after both scans
\* admitted nothing.
C2_UnlikelyOnlyAsBodyLastResort ==
    /\ \A n \in seen : ~Unlikely(n)
    /\ \A n \in Handled :
          Unlikely(n) =>
              /\ seen = {}
              /\ candidates = <<n>>
              /\ doc[n].tag = "body"
              /\ \A m \in BodyNodes : n <= m
              /\ SemanticAdmissible = {}
              /\ FallbackAdmissible = {}

C2_Witness ==
    /\ pc = "done"
    /\ result # None
    /\ IsFallbackTag(result)
    /\ \E n \in DocNodes :
          /\ Unlikely(n)
          /\ IsFallbackTag(n)
          /\ doc[n].textLen > MIN_CHAR_THRESHOLD
          /\ n < result

\* C3 as stated: among candidates with equal scores the node that comes
\* earlier in document order is returned.
C3_TieGoesToDocumentOrder ==
    (pc = "done" /\ result # None) =>
        \A k \in 1..Len(ranked) :
            ranked[k].score = scoreOf[result] => result <= ranked[k].node

\* The position of a node's first query in the scan that collected it:
\* article, main, [role="main"] in the semantic scan; div, section in the
\* fallback scan.
QueryRank(n) ==
    IF SemanticAdmissible # {}
    THEN (IF doc[n].tag = "article" THEN 1 ELSE IF doc[n].tag = "main" THEN 2 ELSE 3)
    ELSE (IF doc[n].tag = "div" THEN 1 ELSE 2)

CollectedBefore(a, b) ==
    \/ QueryRank(a) < QueryRank(b)
    \/ QueryRank(a) = QueryRank(b) /\ a < b

\* C3 as amended: among candidates with equal scores the node collected
\* earlier is returned, because the ranking is a stable descending sort of
\* the candidate list; the list is in query order (all article nodes in
\* document order, then the main nodes, then the [role="main"] nodes; in the
\* fallback scan all div nodes, then the section nodes), which is document
\* order only among the nodes of one query.
C3_TieGoesToCollectionOrder ==
    (pc = "done" /\ result # None) =>
        \A k \in 1..Len(ranked) :
            (ranked[k].score = scoreOf[result] /\ ranked[k].node # result)
                => CollectedBefore(result, ranked[k].node)

C3_Witness ==
    /\ pc = "done"
    /\ Len(ranked) >= 2
    /\ ranked[1].score = ranked[2].score
    /\ result = ranked[1].node
    /\ doc[result].tag = "article"
    /\ doc[ranked[2].node].tag = "main"
    /\ ranked[2].node < result

\* C4: a returned node is the first element of the ranking of the candidate
\* set, and its score is greater than or equal to the score of every
\* candidate that was ranked.
C4_ReturnsTopRanked ==
    (pc = "done" /\ result # None) =>
        /\ ranked # <<>>
        /\ result = ranked[1].node
        /\ RankedNodes = SeqToSet(candidates)
        /\ Len(ranked) = Len(candidates)
        /\ \A k \in 1..Len(ranked) :
              /\ ranked[k].score = scoreOf[ranked[k].node]
              /\ scoreOf[result] >= ranked[k].score

C4_Witness ==
    /\ pc = "done"
    /\ Len(candidates) >= 2
    /\ result = candidates[2]
    /\ scoreOf[candidates[1]] < scoreOf[candidates[2]]

\* C5: the candidate set holds each node identity at most once, in the
\* semantic and in the fallback phase, also when several queries return the
\* same node (<main role="main"> matches main and [role="main"]).
C5_NoDuplicateCandidates ==
    \A i, j \in 1..Len(candidates) : i # j => candidates[i] # candidates[j]

C5_Witness ==
    /\ pc = "done"
    /\ \E k \in 1..Len(candidates) :
          /\ doc[candidates[k]].tag = "main"
          /\ doc[candidates[k]].role = "main"

C7_AbsentExactly ==
    pc = "done" =>
        /\ result = None <=>
              \/ (SemanticAdmissible = {} /\ FallbackAdmissible = {} /\ BodyNodes = {})
              \/ (candidates # <<>> /\ ranked = <<>>)
        /\ result # None => result \in DocNodes

C7_Witness ==
    /\ pc = "done"
    /\ result = None
    /\ ~rankPatched
    /\ \E n \in DocNodes : IsFallbackTag(n) /\ ~Unlikely(n)
    /\ \E n \in DocNodes : IsSemantic(n) /\ Unlikely(n)

(***************************************************************************)
(* Properties of sanitize_content (checked under SpecSanitizer).           *)
(***************************************************************************)
TreeNodes == 1..Len(tree)

\* As parsed, m is n or lies below n.
ParsedBelow(m, n) == n \in ParsedChain(tree, m)

\* As parsed, node n has visible content: non-blank text in its subtree, or
\* a descendant img whose src is valid.
ParsedVisible(n) ==
    \E m \in TreeNodes :
        /\ ParsedBelow(m, n)
        /\ \/ StrStrip(tree[m].text) # <<>>
           \/ m # n /\ tree[m].tag = "img" /\ has_valid_image_src(tree[m].attrs)

\* Node n is still in the document.
Attached(n) == InSubtree(parent, n, Container)

\* C8: sanitize is idempotent: a second call made directly after a first one
\* performs no removal and leaves the tree as the first call left it.
C8_Idempotent ==
    calls >= 2 => (removals = 0 /\ parent = snap)

C8_Witness ==
    /\ calls = 2
    /\ spc = "done"
    /\ \E n \in TreeNodes : snap[n] = None /\ tree[n].parent # None

\* A div inside the candidate that holds a p and, p included, holds nothing
\* visible: it is empty once the empty p is removed.
EmptiedDiv(d) ==
    /\ d > Root
    /\ tree[d].tag = "div"
    /\ ~ParsedVisible(d)
    /\ \E q \in TreeNodes : q # d /\ tree[q].tag = "p" /\ ParsedBelow(q, d)

\* C9 as stated: an ancestor div that is empty only because a nested empty p
\* was removed is not re-evaluated by the call and remains in the subtree
\* after it.
C9_EmptiedDivRemains ==
    (spc = "done" /\ calls = 1) =>
        \A d \in TreeNodes : EmptiedDiv(d) => InSubtree(parent, d, Root)

\* C9 as amended: sanitize runs its three passes once, without a fixpoint
\* loop, and needs none: the visible-content test reads text and valid
\* images, not children, so a div whose only content is an empty p fails the
\* test itself and leaves the subtree in the same call (detached, or gone
\* with a detached ancestor); after one call no a, li, p or div without
\* visible content is left in the document.
C9_SinglePassLeavesNoEmptyBlock ==
    spc = "done" =>
        /\ \A d \in TreeNodes : EmptiedDiv(d) => ~InSubtree(parent, d, Root)
        /\ \A n \in TreeNodes :
              (n >= Root /\ tree[n].tag \in {"a", "li", "p", "div"} /\ Attached(n))
                  => ParsedVisible(n)

C9_Witness ==
    /\ spc = "done"
    /\ calls = 1
    /\ \E d, q \in TreeNodes :
          /\ EmptiedDiv(d)
          /\ tree[q].tag = "p"
          /\ tree[q].parent = d
          /\ parent[q] = None
          /\ parent[d] = None

\* C10: sanitize removes every a element of the subtree that has neither
\* non-empty stripped text nor a descendant img with a valid src, and keeps
\* every a element that has one of the two.
C10_EmptyLinks ==
    spc = "done" =>
        \A n \in TreeNodes :
            tree[n].tag = "a" =>
                IF ParsedVisible(n)
                THEN parent[n] = tree[n].parent /\ Attached(n)
                ELSE parent[n] = None

C10_Witness ==
    /\ spc = "done"
    /\ calls = 1
    /\ \E n, m \in TreeNodes :
          /\ tree[n].tag = "a"
          /\ tree[m].tag = "a"
          /\ ~ParsedVisible(n)
          /\ parent[n] = None
          /\ ParsedVisible(m)
          /\ Attached(m)

(***************************************************************************)
(* Properties of the image pass and the block pass (SpecSanitizer).        *)
(***************************************************************************)
IsImg(n) == n \in TreeNodes /\ tree[n].tag = "img"

ValidImg(n) == IsImg(n) /\ has_valid_image_src(tree[n].attrs)

\* C11: once sanitize_content has returned, no img whose src fails the
\* validity rule is left in the subtree of the sanitized node, and at no point
\* of the call has an img whose src passes the rule been detached or left the
\* document with a detached ancestor.
C11_ImagesByValidity ==
    /\ spc = "done" =>
          \A n \in TreeNodes :
             (IsImg(n) /\ ~ValidImg(n)) => ~InSubtree(parent, n, Root)
    /\ \A n \in TreeNodes :
          ValidImg(n) => (parent[n] = tree[n].parent /\ Attached(n))

C11_Witness ==
    /\ spc = "done"
    /\ tree[Root].tag = "div"
    /\ \E m, n \in TreeNodes :
          /\ ValidImg(m)
          /\ Attached(m)
          /\ IsImg(n)
          /\ "src" \in DOMAIN tree[n].attrs
          /\ ~ValidImg(n)
          /\ parent[n] = None

IsBlock(n) == n \in TreeNodes /\ tree[n].tag \in {"li", "p", "div"}

\* C12: the block pass works on the tree as the link and image passes left
\* it: every li, p and div of the subtree that has no visible content there
\* (no stripped text, no img below it with a valid src) is out of the
\* document when the pass ends, and every li, p and div that has visible
\* content keeps its parent and stays in the document.
C12_BlocksByVisibility ==
    [][RemoveEmptyBlocks =>
          \A n \in TreeNodes :
             (IsBlock(n) /\ InSubtree(parent, n, Root)) =>
                IF node_has_visible_content(tree, parent, n)
                THEN parent'[n] = parent[n] /\ InSubtree(parent', n, Container)
                ELSE ~InSubtree(parent', n, Container)]_vars

C12_Witness ==
    /\ spc = "done"
    /\ calls = 1
    /\ tree[Root].tag = "div"
    /\ ParsedVisible(Root)
    /\ Attached(Root)
    /\ \E m, n \in TreeNodes :
          /\ tree[m].tag = "li"
          /\ IsImg(n)
          /\ tree[n].parent = m
          /\ parent[n] = None
          /\ parent[m] = None

(***************************************************************************)
(* Properties of the image validity rule (checked under SpecImage).        *)
(***************************************************************************)
Calls == 1..Len(checked)

HasTrackingPattern(str) ==
    \E pattern \in tracking_patterns : StrContains(StrLower(str), pattern)

HasKeptPrefix(str) ==
    \E prefix \in kept_prefixes : StartsWith(StrStrip(str), prefix)

\* C13: no src the rule accepts contains, once lower-cased, one of the eight
\* tracking-pixel substrings: the tracking check wins over the prefix rule
\* and over the bare-filename rule.
C13_NoTrackingPixelAccepted ==
    \A i \in Calls : checked[i].valid => ~HasTrackingPattern(srcs[i])

C13_Witness ==
    /\ Len(checked) = 2
    /\ srcs[1] # srcs[2]
    /\ \A i \in Calls :
          /\ HasTrackingPattern(srcs[i])
          /\ ~checked[i].valid
    /\ HasKeptPrefix(srcs[1])
    /\ is_valid_image_filename(StrLower(srcs[2]))

\* C14 as stated: two src values that differ only in letter case receive the
\* same verdict.
C14_CaseInsensitive ==
    Len(checked) = 2 => checked[1].valid = checked[2].valid

\* The text before and after the last dot of str.
LastDotSplits(str) ==
    { k \in 1..Len(str) : str[k] = "." /\ \A j \in (k + 1)..Len(str) : str[j] # "." }

\* C15 as stated: a src that reaches the bare-filename rule is valid exactly
\* when a recognised extension follows its last dot and at least two
\* characters precede that dot.
C15_ExtensionAndTwoCharacters ==
    \A i \in Calls :
       checked[i].line = 124 =>
          LET s == StrLower(StrStrip(srcs[i]))
          IN checked[i].valid <=>
                \E k \in LastDotSplits(s) :
                   /\ SubSeq(s, k + 1, Len(s)) \in valid_extensions
                   /\ k - 1 >= 2

\* str without everything up to its last "/".
AfterLastSlash(str) ==
    IF \E k \in 1..Len(str) : str[k] = "/"
    THEN LET k == CHOOSE k \in 1..Len(str) :
                     str[k] = "/" /\ \A j \in (k + 1)..Len(str) : str[j] # "/"
         IN SubSeq(str, k + 1, Len(str))
    ELSE str

\* C15 as amended: a src that reaches the bare-filename rule is valid exactly
\* when its last path segment (the text after its last "/"), lower-cased,
\* has a recognised extension after its last dot and at least two characters
\* before that dot once surrounding whitespace is stripped.
C15_LastSegmentExtensionAndBasename ==
    \A i \in Calls :
       checked[i].line = 124 =>
          LET s == AfterLastSlash(StrLower(StrStrip(srcs[i])))
          IN checked[i].valid <=>
                \E k \in LastDotSplits(s) :
                   /\ SubSeq(s, k + 1, Len(s)) \in valid_extensions
                   /\ Len(StrStrip(SubSeq(s, 1, k - 1))) >= 2

C15_Witness ==
    /\ Len(checked) = 2
    /\ checked[1].line = 124
    /\ checked[2].line = 124
    /\ srcs[1] # srcs[2]
    /\ ~checked[1].valid
    /\ \E k \in 1..Len(srcs[1]) : srcs[1][k] = "/"
    /\ \E k \in LastDotSplits(srcs[1]) :
          SubSeq(srcs[1], k + 1, Len(srcs[1])) \in valid_extensions

\* The host of a src that contains "://": the text between the first "://"
\* and the next "/", or the end of the src.
HostOf(str) ==
    LET first == CHOOSE k \in 1..Len(str) :
                    /\ StartsWithAt(str, SchemeSep, k - 1)
                    /\ \A j \in 1..(k - 1) : ~StartsWithAt(str, SchemeSep, j - 1)
        from == first + 3
        slashes == { k \in from..Len(str) : str[k] = "/" }
        to == IF slashes = {} THEN Len(str)
              ELSE (CHOOSE k \in slashes : \A j \in slashes : k <= j) - 1
    IN SubSeq(str, from, to)

HasTrackingHost(str) ==
    /\ \E k \in 1..Len(str) : StartsWithAt(str, SchemeSep, k - 1)
    /\ \E prefix \in tracking_domain_prefixes :
          StartsWith(StrLower(HostOf(str)), prefix)

\* C16: a src that contains "://" and whose host, lower-cased, starts with
\* tracking., analytics. or metrics. is invalid whatever follows; and the
\* host check (the return at line 115) rejects no src whose host has none of
\* these prefixes.
C16_TrackingHostRejected ==
    \A i \in Calls :
       /\ HasTrackingHost(srcs[i]) => ~checked[i].valid
       /\ checked[i].line = 115 => HasTrackingHost(srcs[i])

C16_Witness ==
    /\ Len(checked) = 2
    /\ srcs[1] # srcs[2]
    /\ \A i \in Calls :
          /\ checked[i].line = 115
          /\ is_valid_image_filename(StrLower(srcs[i]))
          /\ HasKeptPrefix(StrLower(srcs[i]))

(***************************************************************************)
(* Properties of clean_document (checked under SpecCleaner).               *)
(***************************************************************************)
CleanerNodes == DOMAIN cdoc \ {DocRoot}

StripMatched(n) == SelectorMatches(cdoc[n], strip_selector)

RoleMatched(n) == SelectorMatches(cdoc[n], role_selector)

InDocument(n) == InSubtree(cparent, n, DocRoot)

\* C17: once clean_document has returned, no element matched by
\* strip_selector and none matched by role_selector is still in the
\* document, and what was returned is the document that was passed in.
C17_MatchedNodesGone ==
    returned # None =>
        /\ returned = DocRoot
        /\ \A n \in CleanerNodes :
              (StripMatched(n) \/ RoleMatched(n)) => ~InDocument(n)

C17_Witness ==
    /\ returned # None
    /\ strip_selector # {}
    /\ role_selector # {}
    /\ \E m, n \in CleanerNodes :
          /\ StripMatched(m) /\ ~RoleMatched(m)
          /\ RoleMatched(n) /\ ~StripMatched(n)
          /\ cdoc[n].parent # m
          /\ cparent[m] = None
          /\ cparent[n] = None

\* n or a node above it, as parsed, is matched by one of the selectors.
UnderMatched(n) ==
    \E a \in ParsedChain(cdoc, n) \ {DocRoot} : StripMatched(a) \/ RoleMatched(a)

RECURSIVE KeptOf(_)
KeptOf(seq) ==
    IF seq = <<>> THEN <<>>
    ELSE (IF UnderMatched(Head(seq)) THEN <<>> ELSE <<Head(seq)>>) \o KeptOf(Tail(seq))

\* C18: clean_document detaches only matched elements; an element that is
\* neither matched nor below a matched element is still in the document
\* under its parent, the children every such node keeps are in their parsed
\* order, and with two empty selectors nothing changes at all.
C18_OnlyMatchedDetached ==
    returned # None =>
        /\ \A n \in CleanerNodes :
              /\ cparent[n] # cdoc[n].parent =>
                    (cparent[n] = None /\ (StripMatched(n) \/ RoleMatched(n)))
              /\ ~UnderMatched(n) => InDocument(n)
        /\ \A p \in DOMAIN cdoc :
              (p = DocRoot \/ ~UnderMatched(p)) =>
                  children[p] = KeptOf(ParsedChildren(cdoc)[p])
        /\ (strip_selector = {} /\ role_selector = {}) =>
              (cparent = ParsedParents(cdoc) /\ children = ParsedChildren(cdoc))

C18_Witness ==
    /\ returned # None
    /\ \E m, c, n \in CleanerNodes :
          /\ StripMatched(m) \/ RoleMatched(m)
          /\ cparent[m] = None
          /\ cdoc[c].parent = m
          /\ ~StripMatched(c) /\ ~RoleMatched(c)
          /\ cparent[c] = m
          /\ ~UnderMatched(n)
          /\ n > c
          /\ children[DocRoot] = <<n>>

\* The part of a cleaner state that is the document: the nodes still
\* reachable from it, each with its parent and its child list.
DocumentView(st) ==
    LET inDoc == {n \in DOMAIN st.parent : InSubtree(st.parent, n, DocRoot)}
    IN [n \in inDoc |-> <<st.parent[n], st.children[n]>>]

RoleThenStrip ==
    remove_nodes_by_selector(cdoc,
        remove_nodes_by_selector(cdoc,
            [parent |-> ParsedParents(cdoc), children |-> ParsedChildren(cdoc)],
            role_selector),
        strip_selector)

\* C19: the document clean_document leaves (strip pass, then role pass) is
\* the document the two passes leave when run in the opposite order, also
\* when an element is matched by both selectors or lies inside an element
\* the other pass detaches.
C19_PassesCommute ==
    returned # None =>
        DocumentView([parent |-> cparent, children |-> children])
            = DocumentView(RoleThenStrip)

C19_Witness ==
    /\ returned # None
    /\ \E m, n, b \in CleanerNodes :
          /\ StripMatched(m) /\ ~RoleMatched(m)
          /\ RoleMatched(n) /\ ~StripMatched(n)
          /\ cdoc[n].parent = m
          /\ cparent[m] = None
          /\ cparent[n] = m
          /\ RoleThenStrip.parent[n] = None
          /\ StripMatched(b) /\ RoleMatched(b)
          /\ cparent[b] = None

(***************************************************************************)
(* Property of repeated find_top_candidate calls (SpecFinderRepeat).       *)
(***************************************************************************)
\* C20: a further find_top_candidate call on the unmodified document with
\* the same cache returns what the previous call returned and leaves the
\* cache as it was: the same number of entries, each with its stored length.
C20_RepeatServedFromCache ==
    (finds >= 2 /\ pc = "done") =>
        /\ result = prevResult
        /\ Cardinality(DOMAIN textCache) = Cardinality(DOMAIN prevCache)
        /\ \A n \in DOMAIN prevCache :
              /\ n \in DOMAIN textCache
              /\ textCache[n] = prevCache[n]
              /\ get_text_length(textCache, doc, n) = prevCache[n]

C20_Witness ==
    /\ finds = 2
    /\ pc = "done"
    /\ result # None
    /\ doc[result].tag = "div"
    /\ Cardinality(DOMAIN prevCache) = 2
    /\ Len(ranked) = 1

(***************************************************************************)
(* Frame of sanitize_content (checked under SpecSanitizer).                *)
(***************************************************************************)
RemovableTags == {"a", "img", "li", "p", "div"}

\* The children of p by the parents par.
ChildrenOf(par, p) == {n \in DOMAIN par : par[n] = p}

\* What C28 says of the nodes of the subtree: the elements, their text and
\* attributes stay as parsed, a node's parent changes only by becoming None,
\* only for an a, img, li, p or div that was in the subtree of the sanitized
\* node, and every other node that leaves the subtree lies below a node
\* detached in the step.
DetachesOnlyRemovable ==
    /\ tree' = tree
    /\ DOMAIN parent' = DOMAIN parent
    /\ \A n \in DOMAIN parent :
          parent'[n] # parent[n] =>
             /\ parent'[n] = None
             /\ tree[n].tag \in RemovableTags
             /\ InSubtree(parent, n, Root)
    /\ \A n \in DOMAIN parent :
          (InSubtree(parent, n, Root) /\ ~InSubtree(parent', n, Root)) =>
             \E a \in DOMAIN parent :
                /\ parent[a] # None
                /\ parent'[a] = None
                /\ InSubtree(parent', n, a)

C26_SizeWithinLimit ==
    max_size # None => (max_size >= 1 /\ Len(store) <= max_size)

C26_Witness ==
    /\ lastOp.op = "set"
    /\ lastOp.evicted # {}
    /\ Len(store) = max_size

\* The position of a used key in the order of last uses.
UsedAt(order, key) == CHOOSE i \in DOMAIN order : order[i] = key

\* The keys a set of key finds stored, with key itself.
CompetingKeys == StoreKeys(store) \cup {lastOp'.key}

\* C27: the cache evicts in least-recently-used order: a set evicts a key only
\* when it pushes the size past max_size, the key it evicts is the one whose
\* last get-hit or set is oldest, never the key just set, and get(k) directly
\* after set(k, v) returns v.
C27_LeastRecentlyUsedEvicted ==
    [][/\ lastOp'.op = "set" =>
            /\ lastOp'.key \notin lastOp'.evicted
            /\ Cardinality(lastOp'.evicted) =
                   IF Cardinality(CompetingKeys) > max_size THEN 1 ELSE 0
            /\ \A e \in lastOp'.evicted : \A k \in CompetingKeys \ {e} :
                   UsedAt(recency', e) < UsedAt(recency', k)
       /\ (lastOp.op = "set" /\ lastOp'.op = "get" /\ lastOp'.key = lastOp.key) =>
            lastOp'.result = lastOp.value
      ]_vars

\* A set on a full cache of the largest size evicted a key and kept a
\* key with a smaller number.
C27_Witness ==
    /\ lastOp.op = "set"
    /\ lastOp.evicted # {}
    /\ max_size = MaxSize
    /\ \E e \in lastOp.evicted : \E k \in StoreKeys(store) : k < e

(***************************************************************************)
(* Properties of POST / and the response cache (checked under SpecServer). *)
(***************************************************************************)
KeyOf(url) == build_cache_key(url, EndpointOptions)

\* The step is the lookup of a POST / request for url.
LookupStep(url) ==
    /\ lastResponse'.url = url
    /\ lastResponse'.kind \in {"hit", "miss"}

\* The step answers from the cache, without starting an extraction.
AnsweredFromCache(response) ==
    /\ lastResponse'.kind = "hit"
    /\ lastResponse'.status_code = 200
    /\ lastResponse'.response = response
    /\ inflight' = inflight

\* C21 as stated: once a POST / request for a URL has returned a successful
\* response, every later POST / request for the same URL is answered from
\* the cache with an equal response and without a new extraction.
C21_EveryLaterRequestFromCache ==
    [][\A url \in Urls :
          (LookupStep(url) /\ lastSuccess[url] # None) =>
              AnsweredFromCache(lastSuccess[url])]_vars

\* C21: a stored entry is the latest successful response returned for its
\* URL; a POST / request that finds its URL's entry stored is answered from
\* the cache with that response and without a new extraction; a successful
\* extraction leaves its response stored; and an entry leaves the cache only
\* as the least recently used one when a response for another URL is stored
\* into a full cache, or when the server shuts down.
C21_FromCacheWhileStored ==
    [][/\ \A url \in Urls :
            /\ KeyOf(url) \in StoreKeys(store) =>
                   StoreGet(store, KeyOf(url)) = lastSuccess[url]
            /\ (LookupStep(url) /\ KeyOf(url) \in StoreKeys(store)) =>
                   AnsweredFromCache(lastSuccess[url])
            /\ (lastResponse'.url = url /\ lastResponse'.kind = "success") =>
                   StoreGet(store', KeyOf(url)) = lastResponse'.response
            /\ (KeyOf(url) \in StoreKeys(store) /\ KeyOf(url) \notin StoreKeys(store')) =>
                   \/ ~running'
                   \/ /\ lastResponse'.kind = "success"
                      /\ lastResponse'.url # url
                      /\ KeyOf(lastResponse'.url) \notin StoreKeys(store)
                      /\ Len(store) = max_size
                      /\ store[1][1] = KeyOf(url)
      ]_vars

\* A request was answered from the cache while another URL's entry was
\* stored as well.
C21_Witness ==
    /\ lastResponse.kind = "hit"
    /\ lastResponse.response = lastSuccess[lastResponse.url]
    /\ Len(store) = 2

\* C22: when the extraction returns a result with success false, POST /
\* answers 422 with a detail that holds the extraction error (the HTTPException
\* raised for it is not turned into a 500); when the extraction raises another
\* exception, POST / answers 500.
C22_FailureIs422ExceptionIs500 ==
    /\ lastResponse.kind = "failure" =>
          /\ lastResponse.status_code = 422
          /\ lastResponse.detail[1] = "Failed to extract article: "
          /\ lastResponse.error # "" => lastResponse.detail[2] = lastResponse.error
    /\ lastResponse.kind = "exception" =>
          /\ lastResponse.status_code = 500
          /\ lastResponse.detail[1] = "Internal server error: "

C22_Witness ==
    /\ lastResponse.kind = "failure"
    /\ lastResponse.error = "fetch failed"
    /\ lastResponse.status_code = 422

StoreEntries(s) == {s[i] : i \in DOMAIN s}

\* C29: only responses of successful extractions are stored: an entry enters
\* the cache only in the step that answers 200 for a successful extraction,
\* and it is that response under that URL's key; a request that ends in 422
\* or 500 leaves the store, order included, as it was; and a request whose
\* URL has no entry starts an extraction.
C29_OnlySuccessStored ==
    [][/\ StoreEntries(store') \ StoreEntries(store) # {} =>
            /\ lastResponse'.kind = "success"
            /\ lastResponse'.status_code = 200
            /\ StoreEntries(store') \ StoreEntries(store) =
                   {<<KeyOf(lastResponse'.url), lastResponse'.response>>}
       /\ lastResponse'.kind \in {"failure", "exception"} =>
            /\ lastResponse'.status_code \in {422, 500}
            /\ store' = store
       /\ \A url \in Urls :
            (LookupStep(url) /\ KeyOf(url) \notin StoreKeys(store)) =>
                /\ store' = store
                /\ \E r \in Requests : inflight[r] = None /\ inflight'[r] = url
      ]_vars

\* A request failed while another URL's response was stored, and its own
\* URL has no entry.
C29_Witness ==
    /\ lastResponse.kind = "failure"
    /\ store # <<>>
    /\ KeyOf(lastResponse.url) \notin StoreKeys(store)

(***************************************************************************)
(* Properties of the settings and the cache size (checked under            *)
(* SpecSettings).                                                          *)
(***************************************************************************)
\* The size an environment value stands for: the integer, at least 1, or
\* 1000 when the value is not an integer.
SizeOfText(text) ==
    IF text = "5" THEN 5
    ELSE IF text = "2" THEN 2
    ELSE IF text = "0" THEN 1
    ELSE 1000

\* C24 as stated: the max_size /health reports equals the
\* ARTICLE_EXTRACTOR_CACHE_SIZE value present in the environment at the
\* startup before it, coerced to at least 1, or 1000 when it is not an
\* integer (no keyword override being in force at that startup).
C24_SizedFromStartupEnvironment ==
    (/\ running
     /\ health # None
     /\ startupSaw[1].env # <<>>
     /\ ~startupSaw[1].overridden) =>
        health = SizeOfText(startupSaw[1].env[1])

\* The cache size the environment gives, 1000 when the variable is unset.
EnvironmentSize(environment) ==
    IF environment = <<>> THEN 1000 ELSE SizeOfText(environment[1])

\* C25: after reload_settings(**overrides) every get_settings call returns
\* the one instance that reload built, with the overridden cache_size, until
\* the next reload; after a reload_settings() without a cache_size override
\* (without arguments in particular) it is built from the environment again.
C25_ReloadedInstanceServed ==
    lastReload.id # None =>
        /\ loaded.id = lastReload.id
        /\ lastGet # NoSettings =>
              /\ lastGet.id = lastReload.id
              /\ lastGet.cache_size =
                    IF lastReload.overrides # <<>>
                    THEN lastReload.overrides[1]
                    ELSE EnvironmentSize(lastReload.env)

\* get_settings was called after a reload_settings() that discarded an
\* earlier override, with the variable set in the environment.
C25_Witness ==
    /\ lastReload.discarded
    /\ lastReload.env # <<>>
    /\ lastGet # NoSettings
    /\ lastGet.id = built

(***************************************************************************)
(* Properties of PlaywrightFetcher (checked under SpecFetcher).            *)
(***************************************************************************)
\* The pages the browser holds open (a page being closed is still open).
OpenPages == {t \in Fetches : pages[t] \in {"open", "closing"}}

\* The calls that hold a slot of semaphore sem.
Holders(sem) == {t \in Fetches : fetches[t].sem = sem /\ fetches[t].pc \in HeldPcs}

\* C23 as stated: at most MAX_CONCURRENT_PAGES browser pages are open at any
\* moment, and a page is open only while the fetch call it was made for
\* holds a slot of the semaphore.
C23_AtMostThreePages ==
    /\ Cardinality(OpenPages) <= MAX_CONCURRENT_PAGES
    /\ \A t \in OpenPages : fetches[t].pc \in HeldPcs

\* C30 as stated: once a fetch call has returned or raised, on whatever
\* path, the page made for it is closed and its slot is released; a call on
\* a fetcher that was never entered or was exited raises RuntimeError and
\* no page is made for it.
C30_PageClosedOnEveryPath ==
    /\ \A t \in Fetches :
          fetches[t].pc = "done" =>
              /\ pages[t] \in {"none", "closed"}
              /\ fetches[t].outcome = "RuntimeError" => pages[t] = "none"
    /\ \A sem \in DOMAIN permits :
          permits[sem] = MAX_CONCURRENT_PAGES - Cardinality(Holders(sem))

====
